---- MODULE Spec2Model ----
(***************************************************************************)
(* Cellular-automaton kernel of tom.monster: neighbour counting            *)
(* (src/lib/ca/neighbors.ts), B/S rules (src/lib/ca/rules.ts), Zobrist     *)
(* hashing and the hash tracker (src/lib/ca/zobrist.ts), the simulation    *)
(* engine (src/lib/ca/simulator.ts), the simulation worker                 *)
(* (workers/simulation.worker.ts) and the genetic-search worker            *)
(* (workers/ga.worker.ts, src/lib/ga/engine.ts).                           *)
(***************************************************************************)
EXTENDS Integers, Sequences, FiniteSets, TLC

VARIABLES
    state,      \* engine API: the SimulationState under test
    seed,       \* engine API: the buffer the initializer wrote at creation
    frames,     \* engine API: frames returned by stepSimulation since creation
    engines,    \* two-engine run: SimulationState of engine 1 and of engine 2
    outs,       \* two-engine run: frames returned by each engine
    timer,      \* simulation worker: its `timer` (None is null)
    intervals,  \* simulation worker: ids of the intervals set and not cleared
    posted,     \* simulation worker: messages posted by the latest handler or tick
    prevGeneration, \* simulation worker: generation of the last frame posted before that
    handled,    \* simulation worker: what ran last (message type, or "tick")
    ingested,   \* simulation worker: the seed or cells of the message handled last
    cancelled,  \* GA worker: its `cancelled`
    inbox,      \* GA worker: messages sent to it and not handled yet
    search,     \* GA worker: the locals of the runGeneticSearch call under way
    gaPosted,   \* GA worker: messages posted by the latest run handler
    cancelSent, \* GA worker: a cancel was sent while that run was searching
    gaSent,     \* GA worker: number of messages sent to it
    call        \* a function called on its own: its arguments and what it returned

\* in the simulation worker `state` is the worker's module variable `state`
engineVars == <<seed, frames>>
detVars == <<engines, outs>>
workerVars == <<timer, intervals, posted, prevGeneration, handled, ingested>>

gaVars == <<cancelled, inbox, search, gaPosted, cancelSent, gaSent>>

vars == <<state, seed, frames, engines, outs, timer, intervals, posted, prevGeneration, handled,
          ingested, cancelled, inbox, search, gaPosted, cancelSent, gaSent, call>>

----------------------------------------------------------------------------
(* Bounds of the model *)

\* stepSimulation is called at most MaxSteps times on one state
MaxSteps == 5
\* config.maxPeriod ranges over 1..MaxMaxPeriod
MaxMaxPeriod == 2
\* an initial buffer holds at most MaxStray bytes other than 0 and 1
MaxStray == 1
\* at most MaxGAMessages messages are sent to the GA worker
MaxGAMessages == 2
\* options.iterations is 0 or MaxIterations
MaxIterations == 2
\* a benchmark message lets its loop run at most MaxBenchmark times
MaxBenchmark == 2

----------------------------------------------------------------------------
(* Optional values: JavaScript undefined / null is None, a value v is Some(v) *)

None == <<>>
Some(v) == <<v>>

Max2(a, b) == IF a >= b THEN a ELSE b
Min2(a, b) == IF a <= b THEN a ELSE b

----------------------------------------------------------------------------
(* Unsigned 32-bit integers, kept as the set of their one-bits (bit 0 is   *)
(* the least significant), so that ^ and the numeric order are exact.      *)

Pow2(i) == 2 ^ i

Bits16(n) == {i \in 0..15 : (n \div Pow2(i)) % 2 = 1}

\* the u32 with high half hi and low half lo
U32(hi, lo) == Bits16(lo) \cup {i + 16 : i \in Bits16(hi)}

\* a ^ b
Xor(a, b) == (a \ b) \cup (b \ a)

MaxBit(s) == CHOOSE i \in s : \A j \in s : j <= i

\* a < b as numbers: the highest bit in which they differ is set in b
LessU32(a, b) == a # b /\ MaxBit(Xor(a, b)) \in b

----------------------------------------------------------------------------
(* src/lib/ca/neighbors.ts *)

squareOffsets ==
    << <<-1, -1>>, <<0, -1>>, <<1, -1>>, <<-1, 0>>,
       <<1, 0>>, <<-1, 1>>, <<0, 1>>, <<1, 1>> >>

hexOffsetsEven ==
    << <<0, -1>>, <<1, -1>>, <<-1, 0>>, <<1, 0>>, <<0, 1>>, <<1, 1>> >>

hexOffsetsOdd ==
    << <<-1, -1>>, <<0, -1>>, <<-1, 0>>, <<1, 0>>, <<-1, 1>>, <<0, 1>> >>

\* the loop body without the wrap-around of toroidal grids
NeighborTermNoWrap(cells, width, height, x, y, toroidal, off) ==
    IF x + off[1] < 0 \/ y + off[2] < 0 \/ x + off[1] >= width \/ y + off[2] >= height
    THEN 0
    ELSE cells[(y + off[2]) * width + (x + off[1])]

\* the body of "for (const [dx, dy] of offsets)": what offset k adds to total
NeighborTerm(cells, width, height, x, y, toroidal, off) ==
    LET nx0 == x + off[1]
        ny0 == y + off[2]
        nx == IF toroidal THEN (nx0 + width) % width ELSE nx0
        ny == IF toroidal THEN (ny0 + height) % height ELSE ny0
    IN  IF nx < 0 \/ ny < 0 \/ nx >= width \/ ny >= height
        THEN 0
        ELSE cells[ny * width + nx]

RECURSIVE SumOffsets(_, _, _, _, _, _, _, _)
SumOffsets(cells, width, height, x, y, toroidal, offsets, k) ==
    IF k = 0 THEN 0
    ELSE SumOffsets(cells, width, height, x, y, toroidal, offsets, k - 1)
         + NeighborTerm(cells, width, height, x, y, toroidal, offsets[k])

countNeighborsSquare(cells, width, height, x, y, toroidal) ==
    SumOffsets(cells, width, height, x, y, toroidal, squareOffsets, Len(squareOffsets))

countNeighborsHex(cells, width, height, x, y, toroidal) ==
    LET parity == y % 2
        offsets == IF parity = 0 THEN hexOffsetsEven ELSE hexOffsetsOdd
    IN  SumOffsets(cells, width, height, x, y, toroidal, offsets, Len(offsets))

----------------------------------------------------------------------------
(* src/lib/ca/rules.ts *)

\* a rule string is a sequence of one-character strings
DEFAULT_SQUARE_RULE == <<"B", "3", "/", "S", "2", "3">>

DEFAULT_HEX_RULE == <<"B", "2", "/", "S", "3", "4">>

Digit == [c \in {"0", "1", "2", "3", "4", "5", "6", "7", "8", "9"} |->
            CASE c = "0" -> 0 [] c = "1" -> 1 [] c = "2" -> 2 [] c = "3" -> 3
              [] c = "4" -> 4 [] c = "5" -> 5 [] c = "6" -> 6 [] c = "7" -> 7
              [] c = "8" -> 8 [] c = "9" -> 9]

\* white space that trim() removes, as far as inputs hold any
Whitespace == {" ", "\t", "\n"}

\* input.trim()
RECURSIVE Trim(_)
Trim(input) ==
    IF input = <<>> THEN input
    ELSE IF Head(input) \in Whitespace THEN Trim(Tail(input))
    ELSE IF input[Len(input)] \in Whitespace THEN Trim(SubSeq(input, 1, Len(input) - 1))
    ELSE input

\* the upper-case letter of each lower-case ASCII letter
UpperCase ==
    "a" :> "A" @@ "b" :> "B" @@ "c" :> "C" @@ "d" :> "D" @@ "e" :> "E" @@ "f" :> "F" @@
    "g" :> "G" @@ "h" :> "H" @@ "i" :> "I" @@ "j" :> "J" @@ "k" :> "K" @@ "l" :> "L" @@
    "m" :> "M" @@ "n" :> "N" @@ "o" :> "O" @@ "p" :> "P" @@ "q" :> "Q" @@ "r" :> "R" @@
    "s" :> "S" @@ "t" :> "T" @@ "u" :> "U" @@ "v" :> "V" @@ "w" :> "W" @@ "x" :> "X" @@
    "y" :> "Y" @@ "z" :> "Z"

\* input.toUpperCase(), for inputs of ASCII characters
ToUpperCase(input) ==
    [i \in 1..Len(input) |->
        IF input[i] \in DOMAIN UpperCase THEN UpperCase[input[i]] ELSE input[i]]

\* RULE_REGEX.exec(normalized): the position of "/" when normalized is
\* B<digits>/S<digits>, else None
RuleMatch(normalized) ==
    LET slashes == {p \in 1..Len(normalized) : normalized[p] = "/"}
    IN  IF /\ Cardinality(slashes) = 1
           /\ \E p \in slashes :
                 /\ p >= 2
                 /\ p + 1 <= Len(normalized)
                 /\ normalized[1] = "B"
                 /\ normalized[p + 1] = "S"
                 /\ \A i \in (2..(p - 1)) \cup ((p + 2)..Len(normalized)) :
                        normalized[i] \in DOMAIN Digit
        THEN Some(CHOOSE p \in slashes : TRUE)
        ELSE None

\* [...digits].map((d) => Number(d))
Numbers(digits) == [i \in 1..Len(digits) |-> Digit[digits[i]]]

\* [...new Set(numbers)]: the numbers in the order of their first occurrence
RECURSIVE SetOrder(_)
SetOrder(numbers) ==
    IF numbers = <<>> THEN <<>>
    ELSE IF \E i \in 1..(Len(numbers) - 1) : numbers[i] = numbers[Len(numbers)]
    THEN SetOrder(SubSeq(numbers, 1, Len(numbers) - 1))
    ELSE Append(SetOrder(SubSeq(numbers, 1, Len(numbers) - 1)), numbers[Len(numbers)])

\* .sort() without a comparator orders by the elements' strings; for the
\* numbers 0..9 these are single characters in the order of the numbers
RECURSIVE InsertNumber(_, _)
InsertNumber(sorted, n) ==
    IF sorted = <<>> THEN <<n>>
    ELSE IF Head(sorted) <= n THEN <<Head(sorted)>> \o InsertNumber(Tail(sorted), n)
    ELSE <<n>> \o sorted

RECURSIVE SortNumbers(_)
SortNumbers(numbers) ==
    IF numbers = <<>> THEN <<>>
    ELSE InsertNumber(SortNumbers(SubSeq(numbers, 1, Len(numbers) - 1)),
                      numbers[Len(numbers)])

\* .join(""): one character for each number 0..9
Join(numbers) ==
    [i \in 1..Len(numbers) |-> CHOOSE c \in DOMAIN Digit : Digit[c] = numbers[i]]

\* the rule parseRule builds from the two groups of the match, lines 15-23
RuleOfDigits(birthDigits, survivalDigits) ==
    [ birth    |-> {Numbers(birthDigits)[i] : i \in 1..Len(birthDigits)},
      survival |-> {Numbers(survivalDigits)[i] : i \in 1..Len(survivalDigits)},
      code     |-> <<"B">> \o Join(SortNumbers(SetOrder(Numbers(birthDigits))))
                     \o <<"/", "S">>
                     \o Join(SortNumbers(SetOrder(Numbers(survivalDigits)))) ]

\* parseRule for the trimmed, upper-cased input
ParseNormalized(normalized, match) ==
    IF match = None THEN None
    ELSE Some(RuleOfDigits(SubSeq(normalized, 2, match[1] - 1),
                           SubSeq(normalized, match[1] + 2, Len(normalized))))

\* parseRule that reads the input as it is written, neither trimmed nor
\* upper-cased
parseRuleVerbatim(input) == ParseNormalized(input, RuleMatch(input))

\* parseRule(input): None when it throws
parseRule(input) ==
    ParseNormalized(ToUpperCase(Trim(input)), RuleMatch(ToUpperCase(Trim(input))))

stringifyRule(rule) == rule.code

\* safeParseRule that falls back only for the empty input
safeParseRuleWithUnlessEmpty(input, fallback) ==
    IF input = <<>> THEN parseRule(fallback) ELSE parseRule(input)

\* safeParseRule(input, fallback): None when it throws
safeParseRuleWith(input, fallback) ==
    IF parseRule(input) # None THEN parseRule(input) ELSE parseRule(fallback)

\* safeParseRule(input), the fallback being DEFAULT_SQUARE_RULE
safeParseRule(input) == safeParseRuleWith(input, DEFAULT_SQUARE_RULE)[1]

isSurvival(rule, neighbors) == neighbors \in rule.survival

isBirth(rule, neighbors) == neighbors \in rule.birth

----------------------------------------------------------------------------
(* src/lib/ca/zobrist.ts *)

\* createZobristTable(size) with the default seed 1337: entry i is
\* Math.floor(rng() * 0xffffffff) for the i-th draw of mulberry32(1337).
\* The first 25 draws (0x2f359d25, 0x30a322b4, 0xcf7b17ac, ...), as halves.
ZobristDraws ==
  << U32(12085, 40229), U32(12451, 8884),  U32(53115, 6060),  U32(42188, 47369),
     U32(28231, 16069), U32(24972, 14673), U32(34508, 53067), U32(35952, 10254),
     U32(35651, 59610), U32(35626, 59753), U32(43289, 25930), U32(12497, 20065),
     U32(29827, 20617), U32(25895, 41717), U32(13271, 5470),  U32(52306, 44983),
     U32(37042, 4028),  U32(60810, 36871), U32(41351, 62714), U32(5603, 12034),
     U32(13052, 61561), U32(13688, 61413), U32(29623, 61465), U32(19033, 28621),
     U32(26989, 34705) >>

createZobristTable(size) == [i \in 0..(size - 1) |-> ZobristDraws[i + 1]]

RECURSIVE HashUpTo(_, _, _)
HashUpTo(cells, table, n) ==
    IF n = 0 THEN {}
    ELSE LET h == HashUpTo(cells, table, n - 1)
         IN  IF cells[n - 1] # 0 THEN Xor(h, table[n - 1]) ELSE h

hashCells(cells, table) == HashUpTo(cells, table, Cardinality(DOMAIN cells))

\* new HashTracker(limit): #seen maps a hash to the generation it was added at
NewHashTracker(limit) == [seen |-> <<>>, limit |-> limit]

\* the k smallest keys of a set of hashes
RECURSIVE SmallestKeys(_, _)
SmallestKeys(keys, k) ==
    IF k <= 0 \/ keys = {} THEN {}
    ELSE LET m == CHOOSE a \in keys : \A b \in keys : ~LessU32(b, a)
         IN  {m} \cup SmallestKeys(keys \ {m}, k - 1)

\* add that, on overflow, removes the entries added longest ago
HashTracker_addEvictOldest(tracker, hash, generation) ==
    LET set == [h \in (DOMAIN tracker.seen) \cup {hash} |->
                   IF h = hash THEN generation ELSE tracker.seen[h]]
        size == Cardinality(DOMAIN set)
        gone == IF size > tracker.limit * 2
                THEN {h \in DOMAIN set :
                        Cardinality({g \in DOMAIN set : set[g] < set[h]})
                            < size - tracker.limit * 2}
                ELSE {}
    IN  [tracker EXCEPT !.seen = [h \in (DOMAIN set) \ gone |-> set[h]]]

HashTracker_add(tracker, hash, generation) ==
    LET set == [h \in (DOMAIN tracker.seen) \cup {hash} |->
                   IF h = hash THEN generation ELSE tracker.seen[h]]
        size == Cardinality(DOMAIN set)
        gone == IF size > tracker.limit * 2
                THEN SmallestKeys(DOMAIN set, size - tracker.limit * 2)
                ELSE {}
    IN  [tracker EXCEPT !.seen = [h \in (DOMAIN set) \ gone |-> set[h]]]

HashTracker_has(tracker, hash) == hash \in DOMAIN tracker.seen

HashTracker_period(tracker, hash, generation) ==
    IF hash \notin DOMAIN tracker.seen
    THEN None
    ELSE Some(generation - tracker.seen[hash])

----------------------------------------------------------------------------
(* src/lib/ca/simulator.ts *)

CellCount(config) == config.width * config.height

ZeroBuffer(n) == [i \in 0..(n - 1) |-> 0]

\* createSimulationState(config, initializer): init is the content of the
\* zeroed cells array after initializer(cells) has run (ZeroBuffer when no
\* initializer is given or it writes nothing)
createSimulationState(config, init) ==
    [ config      |-> config,
      cells       |-> init,
      scratch     |-> ZeroBuffer(CellCount(config)),
      tracker     |-> NewHashTracker(config.maxPeriod),
      zobrist     |-> createZobristTable(CellCount(config)),
      generation  |-> 0,
      terminated  |-> FALSE,
      termination |-> None,
      period      |-> None ]

\* lines 79-85: the cell at idx in the next generation, read from source
NextAlive(config, source, idx) ==
    LET x == idx % config.width
        y == idx \div config.width
        alive == source[idx] = 1
        neighbors ==
            IF config.lattice = "square"
            THEN countNeighborsSquare(source, config.width, config.height, x, y, config.toroidal)
            ELSE countNeighborsHex(source, config.width, config.height, x, y, config.toroidal)
    IN  IF alive THEN isSurvival(config.rule, neighbors) ELSE isBirth(config.rule, neighbors)

\* FillTarget with population incremented for the cells alive before the step
RECURSIVE FillTargetCountsSource(_, _, _)
FillTargetCountsSource(config, source, n) ==
    IF n = 0 THEN [target |-> <<>>, population |-> 0]
    ELSE LET done == FillTargetCountsSource(config, source, n - 1)
             nextAlive == NextAlive(config, source, n - 1)
         IN  [ target     |-> Append(done.target, IF nextAlive THEN 1 ELSE 0),
               population |-> IF source[n - 1] = 1 THEN done.population + 1
                              ELSE done.population ]

\* FillTarget that writes into the buffer it reads: the cells before n - 1
\* are already those of the next generation when cell n - 1 is computed
RECURSIVE FillTargetInPlace(_, _, _)
FillTargetInPlace(config, source, n) ==
    IF n = 0 THEN [target |-> <<>>, population |-> 0]
    ELSE LET done == FillTargetInPlace(config, source, n - 1)
             mixed == [i \in DOMAIN source |->
                          IF i < n - 1 THEN done.target[i + 1] ELSE source[i]]
             nextAlive == NextAlive(config, mixed, n - 1)
         IN  [ target     |-> Append(done.target, IF nextAlive THEN 1 ELSE 0),
               population |-> IF nextAlive THEN done.population + 1 ELSE done.population ]

\* lines 76-91: the double loop over the first n cells in row-major order;
\* target[idx] is written and population incremented from the same nextAlive
RECURSIVE FillTarget(_, _, _)
FillTarget(config, source, n) ==
    IF n = 0 THEN [target |-> <<>>, population |-> 0]
    ELSE LET done == FillTarget(config, source, n - 1)
             nextAlive == NextAlive(config, source, n - 1)
         IN  [ target     |-> Append(done.target, IF nextAlive THEN 1 ELSE 0),
               population |-> IF nextAlive THEN done.population + 1 ELSE done.population ]

\* a Uint8Array with the given content, indexed from 0
Uint8Array(seq) == [i \in 0..(Len(seq) - 1) |-> seq[i + 1]]

\* the stats record of a step
Stats(s, population, hash, terminated, reason, period) ==
    [ generation |-> s.generation + 1,
      population |-> population,
      hash       |-> hash,
      terminated |-> terminated,
      reason     |-> reason,
      period     |-> period ]

\* Classify with the period compared against the tracker's size bound
ClassifyAgainstTrackerBound(s, population, hash) ==
    LET seen == HashTracker_has(s.tracker, hash)
        period == HashTracker_period(s.tracker, hash, s.generation + 1)
    IN  IF population = 0
        THEN Stats(s, population, hash, TRUE, Some("extinction"), None)
        ELSE IF seen
        THEN Stats(s, population, hash, TRUE,
                   IF period # None /\ period[1] # 0
                      /\ period[1] <= s.tracker.limit * 2
                   THEN Some("periodic") ELSE Some("steady"),
                   period)
        ELSE Stats(s, population, hash, FALSE, None, None)

\* Classify with the tracker consulted before the population
ClassifyTrackerFirst(s, population, hash) ==
    LET seen == HashTracker_has(s.tracker, hash)
        period == HashTracker_period(s.tracker, hash, s.generation + 1)
    IN  IF seen
        THEN Stats(s, population, hash, TRUE,
                   IF period # None /\ period[1] # 0
                      /\ period[1] <= s.config.maxPeriod
                   THEN Some("periodic") ELSE Some("steady"),
                   period)
        ELSE IF population = 0
        THEN Stats(s, population, hash, TRUE, Some("extinction"), None)
        ELSE Stats(s, population, hash, FALSE, None, None)

\* lines 94-109: the stats of the step, before the tracker is updated
Classify(s, population, hash) ==
    LET seen == HashTracker_has(s.tracker, hash)
        period == HashTracker_period(s.tracker, hash, s.generation + 1)
    IN  IF population = 0
        THEN Stats(s, population, hash, TRUE, Some("extinction"), None)
        ELSE IF seen
        THEN Stats(s, population, hash, TRUE,
                   IF period # None /\ period[1] # 0
                      /\ period[1] <= s.config.maxPeriod
                   THEN Some("periodic") ELSE Some("steady"),
                   period)
        ELSE Stats(s, population, hash, FALSE, None, None)

\* lines 111-123: the tracker is updated, the buffers swapped, the state marked
Advance(s, target, stats) ==
    [ state |-> [ s EXCEPT
                    !.tracker = HashTracker_add(s.tracker, stats.hash, stats.generation),
                    !.cells = target,
                    !.scratch = s.cells,
                    !.generation = stats.generation,
                    !.terminated = s.terminated \/ stats.terminated,
                    !.termination = IF stats.terminated THEN stats.reason ELSE s.termination,
                    !.period = IF stats.terminated THEN stats.period ELSE s.period ],
      stats |-> stats ]

\* lines 93-123, given what the double loop left
AfterLoop(s, target, population) ==
    Advance(s, target, Classify(s, population, hashCells(target, s.zobrist)))

Looped(s, loop) == AfterLoop(s, Uint8Array(loop.target), loop.population)

nextPopulation(s) == Looped(s, FillTarget(s.config, s.cells, CellCount(s.config)))

\* lines 128-131: { ...stats, cells: state.cells.slice() }
FrameOf(r) ==
    [ state |-> r.state,
      frame |-> [ generation |-> r.stats.generation,
                  population |-> r.stats.population,
                  hash       |-> r.stats.hash,
                  terminated |-> r.stats.terminated,
                  reason     |-> r.stats.reason,
                  period     |-> r.stats.period,
                  cells      |-> r.state.cells ] ]

stepSimulation(s) == FrameOf(nextPopulation(s))

----------------------------------------------------------------------------
(* The configurations and initial buffers the model draws from *)

Rule(birth, survival) == [birth |-> birth, survival |-> survival]

\* B3/S23 and B2/S34 are DEFAULT_SQUARE_RULE and DEFAULT_HEX_RULE
Rules == { Rule({3}, {2, 3}), Rule({2}, {3, 4}), Rule({0}, {}), Rule({1}, {1}) }

GridSizes == { <<1, 1>>, <<2, 2>>, <<3, 3>> }

Config(lattice, wh, rule, toroidal, maxPeriod) ==
    [ lattice |-> lattice, width |-> wh[1], height |-> wh[2], rule |-> rule,
      toroidal |-> toroidal, maxPeriod |-> maxPeriod ]

Configs ==
    { Config(l, wh, r, t, m) :
        l \in {"square", "hex"}, wh \in GridSizes, r \in Rules,
        t \in BOOLEAN, m \in 1..MaxMaxPeriod }

\* the buffer with 1 at the given (x, y) coordinates of a width-wide grid
Pattern(width, height, coords) ==
    [i \in 0..(width * height - 1) |->
        IF <<i % width, i \div width>> \in coords THEN 1 ELSE 0]

\* the literal scenarios: blinker on 5x5 and block on 4x4, bounded B3/S23
BlinkerConfig(m) == Config("square", <<5, 5>>, Rule({3}, {2, 3}), FALSE, m)
BlinkerSeed == Pattern(5, 5, { <<1, 2>>, <<2, 2>>, <<3, 2>> })
BlockConfig(m) == Config("square", <<4, 4>>, Rule({3}, {2, 3}), FALSE, m)
BlockSeed == Pattern(4, 4, { <<1, 1>>, <<2, 1>>, <<1, 2>>, <<2, 2>> })

\* byte values other than 0 and 1 an initializer may write
StrayBytes == {2}

\* grids on which initial buffers with stray bytes are explored
StrayGridSizes == { <<1, 1>>, <<2, 2>> }

\* buffers an initializer can leave in n cells: any 0/1 content, in which up
\* to `stray` cells are overwritten with another byte value
Buffers(n, stray) ==
    { [i \in 0..(n - 1) |-> IF i \in DOMAIN over THEN over[i] ELSE b[i]] :
        b \in [0..(n - 1) -> {0, 1}],
        over \in UNION { [at -> StrayBytes] :
                          at \in { a \in SUBSET (0..(n - 1)) : Cardinality(a) <= stray } } }

InitialBuffers(config) ==
    Buffers(CellCount(config),
            IF <<config.width, config.height>> \in StrayGridSizes THEN MaxStray ELSE 0)

----------------------------------------------------------------------------
(* Engine API: one SimulationState, stepped by its caller *)

Idle2 == [e \in {1, 2} |-> None]

\* the parts of the model a specification does not use stay as they start
DetIdle == engines = Idle2 /\ outs = Idle2

GAIdle ==
    /\ cancelled = FALSE
    /\ inbox = <<>>
    /\ search = None
    /\ gaPosted = <<>>
    /\ cancelSent = FALSE
    /\ gaSent = 0
    /\ call = None

WorkerIdle ==
    /\ timer = None
    /\ intervals = {}
    /\ posted = <<>>
    /\ prevGeneration = None
    /\ handled = "none"
    /\ ingested = None

Init ==
    /\ \/ \E m \in 1..MaxMaxPeriod :
              /\ seed = BlockSeed
              /\ state = createSimulationState(BlockConfig(m), BlockSeed)
       \/ \E m \in 1..MaxMaxPeriod :
              /\ seed = BlinkerSeed
              /\ state = createSimulationState(BlinkerConfig(m), BlinkerSeed)
       \/ \E config \in Configs : \E init \in InitialBuffers(config) :
              /\ seed = init
              /\ state = createSimulationState(config, init)
    /\ frames = <<>>
    /\ DetIdle
    /\ WorkerIdle
    /\ GAIdle

\* const frame = stepSimulation(state)
Step ==
    /\ state.generation < MaxSteps
    /\ \E r \in {stepSimulation(state)} :
           /\ state' = r.state
           /\ frames' = Append(frames, r.frame)
    /\ UNCHANGED <<seed, detVars, workerVars, gaVars, call>>

Next == Step

Spec == Init /\ [][Next]_vars

----------------------------------------------------------------------------
(* Properties of the engine API (specification Spec) *)

Live(cells) == {i \in DOMAIN cells : cells[i] = 1}

\* frames[k] is the first terminated frame or precedes it
NoEarlierTermination(k) == \A j \in 1..(k - 1) : ~frames[j].terminated

IsPeriodic(f, p) == f.terminated /\ f.reason = Some("periodic") /\ f.period = Some(p)

\* C1: once a frame returned by stepSimulation has terminated = true, every
\* frame returned by a later stepSimulation call on the same state has
\* terminated = true.
C1_TerminationMonotone ==
    \A i \in DOMAIN frames : \A j \in DOMAIN frames :
        (i < j /\ frames[i].terminated) => frames[j].terminated

\* C3: with no earlier termination, a step that produces a non-empty state
\* identical to the state produced p steps before, 1 <= p <= maxPeriod (p the
\* distance to the nearest such step), returns a frame with terminated = true,
\* reason = periodic and period = p.
C3_RecurrenceIsPeriodic ==
    \A k \in DOMAIN frames : \A p \in 1..state.config.maxPeriod :
        ( /\ k - p >= 1
          /\ NoEarlierTermination(k)
          /\ frames[k].population > 0
          /\ frames[k].cells = frames[k - p].cells
          /\ \A q \in 1..(p - 1) : frames[k].cells # frames[k - q].cells )
        => IsPeriodic(frames[k], p)

\* C4: when the non-empty buffer of generation 0 first recurs after p steps,
\* p <= maxPeriod, the frame with generation p has terminated = true,
\* reason = periodic and period = p.
C4_InitialCycleReportedAtFirstRecurrence ==
    \A p \in DOMAIN frames :
        ( /\ p <= state.config.maxPeriod
          /\ Live(seed) # {}
          /\ frames[p].cells = seed
          /\ \A q \in 1..(p - 1) : frames[q].cells # seed )
        => (frames[p].generation = p /\ IsPeriodic(frames[p], p))

\* C7: a frame with reason = periodic has a period with 1 <= period <=
\* maxPeriod, and a frame with reason = steady has a period > maxPeriod, for
\* every frame, also those returned after termination.
C7_PeriodMatchesReason ==
    \A k \in DOMAIN frames :
        /\ frames[k].reason = Some("periodic") =>
              /\ frames[k].period # None
              /\ 1 <= frames[k].period[1]
              /\ frames[k].period[1] <= state.config.maxPeriod
        /\ frames[k].reason = Some("steady") =>
              /\ frames[k].period # None
              /\ frames[k].period[1] > state.config.maxPeriod

\* C7 witness: a steady frame returned after an earlier terminated frame
C7_Witness ==
    \E j \in DOMAIN frames : \E k \in DOMAIN frames :
        /\ j < k
        /\ frames[j].terminated
        /\ frames[k].reason = Some("steady")
        /\ frames[k].period[1] > state.config.maxPeriod

\* C8: after any stepSimulation call, frame.population is the number of cells
\* equal to 1 in frame.cells and in state.cells, and is at most width x height.
C8_PopulationCountsOnes ==
    \A k \in DOMAIN frames :
        /\ frames[k].population = Cardinality(Live(frames[k].cells))
        /\ frames[k].population <= CellCount(state.config)
        /\ k = Len(frames) => frames[k].population = Cardinality(Live(state.cells))

\* C8 witness: a step that changed the population to a value strictly between
\* 0 and the cell count
C8_Witness ==
    /\ Len(frames) >= 2
    /\ frames[2].population # frames[1].population
    /\ frames[2].population > 0
    /\ frames[2].population < CellCount(state.config)

\* C9: a frame has terminated = true with reason = extinction exactly when its
\* population is 0, also when the hash of the empty grid is already tracked.
C9_ExtinctionIffEmpty ==
    \A k \in DOMAIN frames :
        (frames[k].terminated /\ frames[k].reason = Some("extinction"))
            <=> (frames[k].population = 0)

\* C9 witness: a second empty generation in a row, reported as extinction
\* while the tracker (never trimmed so far) holds the empty grid's hash
C9_Witness ==
    /\ Len(frames) >= 2
    /\ frames[Len(frames) - 1].population = 0
    /\ frames[Len(frames)].population = 0
    /\ frames[Len(frames)].reason = Some("extinction")
    /\ HashTracker_has(state.tracker, {})
    /\ Cardinality(DOMAIN state.tracker.seen) < 2 * state.tracker.limit

\* every non-zero byte replaced by 1
Normalized(cells) == [i \in DOMAIN cells |-> IF cells[i] # 0 THEN 1 ELSE 0]

\* the frame returned by the k-th stepSimulation call on s
RECURSIVE FrameAfter(_, _)
FrameAfter(s, k) ==
    IF k = 1 THEN stepSimulation(s).frame
    ELSE FrameAfter(stepSimulation(s).state, k - 1)

\* C10: a buffer with arbitrary byte values evolves exactly as the buffer in
\* which every non-zero byte is replaced by 1: same cells, population and
\* termination in every frame.
C10_NonZeroBytesAreLive ==
    \A k \in DOMAIN frames :
        LET ref == FrameAfter(createSimulationState(state.config, Normalized(seed)), k)
        IN  /\ frames[k].cells = ref.cells
            /\ frames[k].population = ref.population
            /\ frames[k].terminated = ref.terminated
            /\ frames[k].reason = ref.reason

----------------------------------------------------------------------------
(* Two engines created alike and stepped independently (SpecDet) *)

DetGridSizes == { <<1, 1>>, <<2, 2>> }

DetConfigs == { c \in Configs : <<c.width, c.height>> \in DetGridSizes }

Created2(config, init) == [e \in {1, 2} |-> createSimulationState(config, init)]

InitDet ==
    /\ \/ \E m \in 1..MaxMaxPeriod : engines = Created2(BlockConfig(m), BlockSeed)
       \/ \E m \in 1..MaxMaxPeriod : engines = Created2(BlinkerConfig(m), BlinkerSeed)
       \/ \E config \in DetConfigs : \E init \in InitialBuffers(config) :
              engines = Created2(config, init)
    /\ outs = [e \in {1, 2} |-> <<>>]
    /\ state = None
    /\ seed = None
    /\ frames = <<>>
    /\ WorkerIdle
    /\ GAIdle

\* StepEngine with one tracker shared by both engines (kept in engine 1)
StepEngineSharedTracker(e) ==
    /\ engines[e].generation < MaxSteps
    /\ \E r \in {stepSimulation([engines[e] EXCEPT !.tracker = engines[1].tracker])} :
           /\ engines' = [d \in {1, 2} |->
                            IF d = e THEN r.state
                            ELSE [engines[d] EXCEPT !.tracker = r.state.tracker]]
           /\ outs' = [outs EXCEPT ![e] = Append(@, r.frame)]
    /\ UNCHANGED <<state, engineVars, workerVars, gaVars, call>>

\* const frame = stepSimulation(engines[e])
StepEngine(e) ==
    /\ engines[e].generation < MaxSteps
    /\ \E r \in {stepSimulation(engines[e])} :
           /\ engines' = [engines EXCEPT ![e] = r.state]
           /\ outs' = [outs EXCEPT ![e] = Append(@, r.frame)]
    /\ UNCHANGED <<state, engineVars, workerVars, gaVars, call>>

NextDet == \E e \in {1, 2} : StepEngine(e)

SpecDet == InitDet /\ [][NextDet]_vars

----------------------------------------------------------------------------
(* workers/simulation.worker.ts (SpecWorker) *)

ByteLength(array) == Cardinality(DOMAIN array)

\* array.subarray(0, end)
Subarray(array, end) == [i \in 0..(Min2(end, ByteLength(array)) - 1) |-> array[i]]

\* cells.set(source), for a source that fits
SetBytes(cells, source) ==
    [i \in DOMAIN cells |-> IF i \in DOMAIN source THEN source[i] ELSE cells[i]]

FrameMsg(frame) == [type |-> "frame", frame |-> frame]

RECURSIVE SumBytes(_, _)
SumBytes(cells, n) == IF n = 0 THEN 0 ELSE SumBytes(cells, n - 1) + cells[n - 1]

\* the worker's module variables and the messages posted so far by the
\* handler that is running
Worker == [state |-> state, timer |-> timer, intervals |-> intervals, posted |-> <<>>]

post(w, message) == [w EXCEPT !.posted = Append(@, message)]

emitSnapshot(w) ==
    IF w.state = None THEN w
    ELSE post(w, FrameMsg([ generation |-> w.state.generation,
                            population |-> SumBytes(w.state.cells, ByteLength(w.state.cells)),
                            hash       |-> hashCells(w.state.cells, w.state.zobrist),
                            terminated |-> w.state.terminated,
                            reason     |-> w.state.termination,
                            period     |-> w.state.period,
                            cells      |-> w.state.cells ]))

clearInterval(w) ==
    IF w.timer = None THEN w
    ELSE [w EXCEPT !.intervals = @ \ {w.timer[1]}]

\* lines 45-49 without the test of frame.terminated: the interval stays set
PostFrameKeepsTimer(w, r) ==
    post([w EXCEPT !.state = r.state], FrameMsg(r.frame))

\* lines 45-49, for the result r of stepSimulation(state)
PostFrame(w, r) ==
    IF r.frame.terminated /\ w.timer # None
    THEN [clearInterval(post([w EXCEPT !.state = r.state], FrameMsg(r.frame)))
            EXCEPT !.timer = None]
    ELSE post([w EXCEPT !.state = r.state], FrameMsg(r.frame))

\* sendFrame that leaves a terminated state as it is and posts it again
sendFrameFrozen(w) ==
    IF w.state = None THEN w
    ELSE IF w.state.terminated THEN emitSnapshot(w)
    ELSE PostFrame(w, stepSimulation(w.state))

sendFrame(w) ==
    IF w.state = None THEN w
    ELSE PostFrame(w, stepSimulation(w.state))

\* the benchmark loop: sendFrame() called `steps` times
RECURSIVE SendFrames(_, _)
SendFrames(w, steps) ==
    IF steps = 0 THEN w ELSE sendFrame(SendFrames(w, steps - 1))

\* the generation of the last frame message among messages, or else previous
RECURSIVE LastGeneration(_, _)
LastGeneration(messages, previous) ==
    IF messages = <<>> THEN previous
    ELSE IF messages[Len(messages)].type = "frame"
    THEN Some(messages[Len(messages)].frame.generation)
    ELSE LastGeneration(SubSeq(messages, 1, Len(messages) - 1), previous)

\* a handler or timer callback returns, leaving w
Return(w, what) ==
    /\ state' = w.state
    /\ timer' = w.timer
    /\ intervals' = w.intervals
    /\ posted' = w.posted
    /\ prevGeneration' = LastGeneration(posted, prevGeneration)
    /\ handled' = what
    /\ UNCHANGED <<engineVars, detVars, gaVars, call>>

\* stepping stays within MaxSteps generations
CanStep(steps) == IF state = None THEN TRUE ELSE state.generation + steps <= MaxSteps

WorkerGridSizes == { <<2, 2>> }

WorkerRules == { Rule({3}, {2, 3}), Rule({1}, {1}) }

WorkerMaxPeriods == {1, 2}

WorkerConfigs ==
    { Config("square", wh, r, FALSE, m) :
        wh \in WorkerGridSizes, r \in WorkerRules, m \in WorkerMaxPeriods }

Ones(n) == [i \in 0..(n - 1) |-> 1]

\* seeds of an init or load message for a grid of n cells: every 0/1 buffer
\* of n bytes, one that is a byte short and one that is a byte long
SeedBuffers(n) == [0..(n - 1) -> {0, 1}] \cup {Ones(n - 1), Ones(n + 1)}

\* buffers randomize can leave (density 0 gives zeros, density 1 ones)
RandomBuffers(n) == [0..(n - 1) -> {0, 1}]

\* the interval ids are fresh: the smallest number not in use
FreshInterval(used) == CHOOSE id \in 1..(Cardinality(used) + 1) : id \notin used

InitWorker ==
    /\ state = None
    /\ WorkerIdle
    /\ GAIdle
    /\ seed = None
    /\ frames = <<>>
    /\ DetIdle

\* case "init": message.seed is None when the message carries no seed; a seed
\* longer than the buffer makes cells.set throw and the handler ends there
HandleInit(config, messageSeed) ==
    /\ ingested' = messageSeed
    /\ IF messageSeed # None /\ ByteLength(messageSeed[1]) > CellCount(config)
       THEN Return(Worker, "init")
       ELSE LET init == IF messageSeed = None THEN ZeroBuffer(CellCount(config))
                        ELSE SetBytes(ZeroBuffer(CellCount(config)), messageSeed[1])
                created == [Worker EXCEPT !.state = createSimulationState(config, init)]
            IN  Return(emitSnapshot(post(created, [type |-> "ready"])), "init")

\* case "step"
HandleStep ==
    /\ CanStep(1)
    /\ ingested' = None
    /\ Return(sendFrame(Worker), "step")

\* case "run": the interval's delay, Math.max(16, 1000 / Math.max(1, speed)),
\* only sets how often Tick runs
HandleRun ==
    LET cleared == clearInterval(Worker)
        id == FreshInterval(cleared.intervals)
    IN  /\ ingested' = None
        /\ Return([cleared EXCEPT !.timer = Some(id), !.intervals = @ \cup {id}], "run")

\* the callback of an interval that is set: () => sendFrame()
Tick ==
    /\ intervals # {}
    /\ CanStep(1)
    /\ ingested' = None
    /\ Return(sendFrame(Worker), "tick")

\* case "pause" that sets timer to null without clearInterval(timer)
HandlePauseForgets ==
    /\ ingested' = None
    /\ Return([Worker EXCEPT !.timer = None], "pause")

\* case "pause"
HandlePause ==
    /\ ingested' = None
    /\ IF timer # None
       THEN Return([clearInterval(Worker) EXCEPT !.timer = None], "pause")
       ELSE Return(Worker, "pause")

\* randomize(state, density): cells is what the draws of Math.random() leave
randomize(st, cells) ==
    [st EXCEPT !.cells = cells,
               !.scratch = ZeroBuffer(ByteLength(st.scratch)),
               !.generation = 0,
               !.terminated = FALSE,
               !.tracker = NewHashTracker(st.config.maxPeriod)]

\* case "randomize"
HandleRandomize(cells) ==
    /\ ingested' = None
    /\ IF state = None THEN Return(Worker, "randomize")
       ELSE Return(emitSnapshot([Worker EXCEPT !.state = randomize(state, cells)]),
                   "randomize")

\* case "load"
HandleLoad(cells) ==
    /\ ingested' = Some(cells)
    /\ IF state = None THEN Return(Worker, "load")
       ELSE LET n == CellCount(state.config)
                init == SetBytes(ZeroBuffer(n), Subarray(cells, n))
            IN  Return(emitSnapshot([Worker EXCEPT
                           !.state = createSimulationState(state.config, init)]), "load")

\* case "benchmark": the loop runs `steps` times before message.duration is up
HandleBenchmark(steps) ==
    /\ CanStep(steps)
    /\ ingested' = None
    /\ IF state = None THEN Return(Worker, "benchmark")
       ELSE Return(post(SendFrames(Worker, steps), [type |-> "benchmark", steps |-> steps]),
                   "benchmark")

NextWorker ==
    \/ \E config \in WorkerConfigs :
           \E messageSeed \in {None} \cup {Some(b) : b \in SeedBuffers(CellCount(config))} :
               HandleInit(config, messageSeed)
    \/ HandleStep
    \/ HandleRun
    \/ Tick
    \/ HandlePause
    \/ \E cells \in RandomBuffers(IF state = None THEN 0 ELSE CellCount(state.config)) :
           HandleRandomize(cells)
    \/ \E cells \in SeedBuffers(IF state = None THEN 1 ELSE CellCount(state.config)) :
           HandleLoad(cells)
    \/ \E steps \in 0..MaxBenchmark : HandleBenchmark(steps)

SpecWorker == InitWorker /\ [][NextWorker]_vars

\* the generations of the frame messages among messages, in order
FrameGenerations(messages) ==
    LET framesOnly == SelectSeq(messages, LAMBDA msg : msg.type = "frame")
    IN  [i \in 1..Len(framesOnly) |-> framesOnly[i].frame.generation]

\* the generations of the frames the last handler posted, after that of the
\* last frame posted before it (when there is one)
GenerationStream ==
    (IF prevGeneration = None THEN <<>> ELSE <<prevGeneration[1]>>)
        \o FrameGenerations(posted)

\* C5 (as stated): in the stream of frames the worker posts after init, each
\* frame's generation is greater than that of every frame posted before it,
\* under step, run, pause, randomize and benchmark messages and timer ticks.
C5_GenerationStrictlyIncreasing ==
    handled \in {"step", "run", "tick", "pause", "randomize", "benchmark"} =>
        \A i \in 1..Len(GenerationStream) : \A j \in 1..Len(GenerationStream) :
            i < j => GenerationStream[i] < GenerationStream[j]

\* C5 (amended): a frame posted by a step, a timer tick or a benchmark step
\* has the generation of the frame posted before it plus one, also after the
\* engine has terminated; the frame posted by init, randomize or load has
\* generation 0, whatever was posted before; run and pause post no frame.
C5_GenerationRestartsOnlyOnReset ==
    /\ handled \in {"step", "tick", "benchmark"} =>
           \A i \in 1..(Len(GenerationStream) - 1) :
               GenerationStream[i + 1] = GenerationStream[i] + 1
    /\ handled \in {"init", "randomize", "load"} =>
           \A i \in 1..Len(FrameGenerations(posted)) : FrameGenerations(posted)[i] = 0
    /\ handled \in {"run", "pause"} => FrameGenerations(posted) = <<>>

\* C5 witness: a benchmark has stepped an engine that had terminated before
\* and posted several frames
C5_Witness ==
    /\ handled = "benchmark"
    /\ prevGeneration # None
    /\ prevGeneration[1] >= 1
    /\ Len(FrameGenerations(posted)) >= 2
    /\ posted[1].frame.terminated
    /\ state.terminated

\* the frame messages the last handler or timer callback posted
FramesPosted(messages) == SelectSeq(messages, LAMBDA msg : msg.type = "frame")

\* no interval is set: no timer callback is to come
Halted == intervals = {}

\* at most one interval is ever set, the one `timer` holds; after pause none
\* is set and nothing was posted
PauseInvariant ==
    /\ Cardinality(intervals) <= 1
    /\ intervals = (IF timer = None THEN {} ELSE {timer[1]})
    /\ handled = "pause" => (Halted /\ posted = <<>>)

\* pause and run leave the state as it is and post nothing; in a state that
\* is `quiet`, whatever is handled other than the messages `resuming` leaves
\* the state as it is, posts no frame and sets no interval; the frame of a
\* timer callback has the generation after the state's
PauseStep(quiet, resuming) ==
    /\ handled' \in {"pause", "run"} => (state' = state /\ posted' = <<>>)
    /\ (quiet /\ handled' \notin resuming) =>
           /\ state' = state
           /\ FramesPosted(posted') = <<>>
           /\ Halted'
    /\ (handled' = "tick" /\ state # None) =>
           /\ Len(posted') = 1
           /\ posted'[1].frame.generation = state.generation + 1

\* C22 (as stated): after a pause no frame is posted and the state (cells,
\* generation, tracker, terminated) is unchanged until a step, run, randomize,
\* load or benchmark message is handled; a later run resumes from the same
\* generation; at most one interval timer is active at any time.
C22_PauseHaltsUntilListedMessage ==
    /\ []PauseInvariant
    /\ [][PauseStep(handled = "pause" /\ state # None,
                    {"step", "run", "randomize", "load", "benchmark"})]_vars

\* C22 (amended): the same, an init message being one more message that
\* changes the state and posts a frame after a pause; it holds from every
\* state in which no interval is set, not only from the one a pause leaves.
C22_PauseHaltsUntilMessage ==
    /\ []PauseInvariant
    /\ [][PauseStep(Halted,
                    {"init", "step", "run", "randomize", "load", "benchmark"})]_vars

\* a pause has been handled for a state that has run some generations and has
\* not terminated
C22_Witness ==
    /\ handled = "pause"
    /\ state # None
    /\ state.generation >= 1
    /\ ~state.terminated
    /\ timer = None

\* C28: every frame message the worker posts, from a step or from the
\* snapshot after init, randomize or load, carries a reason and a period only
\* when its terminated is true.
C28_ReasonOnlyWhenTerminated ==
    \A i \in 1..Len(FramesPosted(posted)) :
        ~FramesPosted(posted)[i].frame.terminated =>
            /\ FramesPosted(posted)[i].frame.reason = None
            /\ FramesPosted(posted)[i].frame.period = None

\* the timer callback has just posted a frame with terminated = true
StoppedByTimer ==
    /\ handled = "tick"
    /\ \E i \in 1..Len(FramesPosted(posted)) : FramesPosted(posted)[i].frame.terminated

\* the timer callback that posts a terminated frame leaves no interval set
\* and timer null; at most one interval is ever set, the one `timer` holds
StopInvariant ==
    /\ StoppedByTimer => (timer = None /\ intervals = {})
    /\ Cardinality(intervals) <= 1
    /\ intervals = (IF timer = None THEN {} ELSE {timer[1]})

\* in a state that is `quiet`, whatever happens other than the handling of
\* one of the messages `resuming` posts no frame and sets no interval; run
\* leaves exactly one interval set, whether or not one was set before
StopStep(quiet, resuming) ==
    /\ (quiet /\ handled' \notin resuming) =>
           /\ FramesPosted(posted') = <<>>
           /\ intervals' = {}
    /\ handled' = "run" =>
           /\ Cardinality(intervals') = 1
           /\ timer' # None
           /\ intervals' = {timer'[1]}

\* C29 (as stated): once the interval timer has posted a frame with
\* terminated = true the timer is cleared and no further frame is posted
\* until a step, run, randomize, load or benchmark message is handled; a run
\* message received while a timer is active replaces that timer.
C29_StopsUntilListedMessage ==
    /\ []StopInvariant
    /\ [][StopStep(StoppedByTimer,
                   {"step", "run", "randomize", "load", "benchmark"})]_vars

\* C29 (amended): the same, an init message being one more control message
\* that posts a frame after the stop; it holds from every state in which no
\* interval is set, not only from the one the stop leaves.
C29_StopsUntilMessage ==
    /\ []StopInvariant
    /\ [][StopStep(Halted,
                   {"init", "step", "run", "randomize", "load", "benchmark"})]_vars

\* the timer has posted the frame that ended a run of several generations
C29_Witness ==
    /\ StoppedByTimer
    /\ state.generation >= 2
    /\ prevGeneration = Some(state.generation - 1)
    /\ timer = None
    /\ intervals = {}

\* what a seed leaves in a buffer of n cells when it is cut to n bytes
Truncated(source, n) ==
    [i \in 0..(n - 1) |-> IF i < ByteLength(source) THEN source[i] ELSE 0]

\* C11 (worker paths): an init message with a seed and a load message are
\* accepted whatever the seed's length: the first width x height bytes of the
\* seed become the current buffer, the remaining cells are 0, and init
\* answers ready first.
C11_SeedTruncatedOnIngest ==
    (/\ handled \in {"init", "load"}
     /\ ingested # None
     /\ handled = "load" => state # None)
        => IF state = None \/ posted = <<>> THEN FALSE
           ELSE /\ state.cells = Truncated(ingested[1], CellCount(state.config))
                /\ handled = "init" => posted[1].type = "ready"

----------------------------------------------------------------------------
(* applySeed between steps of the engine API (SpecSeed) *)

\* applySeed that keeps the tracker of the run before
applySeedKeepTracker(st, source) ==
    [st EXCEPT !.cells = SetBytes(ZeroBuffer(ByteLength(st.cells)),
                                  Subarray(source, ByteLength(st.cells))),
               !.generation = 0,
               !.terminated = FALSE]

\* applySeed(state, seed): the state afterwards
applySeed(st, source) ==
    [st EXCEPT !.cells = SetBytes(ZeroBuffer(ByteLength(st.cells)),
                                  Subarray(source, ByteLength(st.cells))),
               !.generation = 0,
               !.terminated = FALSE,
               !.tracker = NewHashTracker(st.config.maxPeriod)]

SeedGridSizes == { <<1, 2>>, <<2, 2>> }

SeedConfigs ==
    { Config("square", wh, r, t, m) :
        wh \in SeedGridSizes, r \in WorkerRules, t \in BOOLEAN, m \in 1..MaxMaxPeriod }

\* `seed` is the buffer the run under way started from: the initial buffer,
\* then the seed of the latest applySeed; `frames` are the frames since
InitSeed ==
    /\ \E config \in SeedConfigs : \E init \in RandomBuffers(CellCount(config)) :
           /\ seed = init
           /\ state = createSimulationState(config, init)
    /\ frames = <<>>
    /\ DetIdle
    /\ WorkerIdle
    /\ GAIdle

ApplySeed(source) ==
    /\ state' = applySeed(state, source)
    /\ seed' = source
    /\ frames' = <<>>
    /\ UNCHANGED <<detVars, workerVars, gaVars, call>>

NextSeed ==
    \/ Step
    \/ \E source \in SeedBuffers(CellCount(state.config)) : ApplySeed(source)

SpecSeed == InitSeed /\ [][NextSeed]_vars

\* C12: whatever steps came before (a terminated run included),
\* applySeed(state, s) followed by steps returns the frames a freshly created
\* state with the same config returns after applySeed(fresh, s): generation
\* restarts at 1 and no hash of the run before is seen.
C12_ApplySeedResetsRun ==
    \A k \in 1..Len(frames) :
        frames[k] = FrameAfter(applySeed(createSimulationState(state.config,
                                             ZeroBuffer(CellCount(state.config))),
                                         seed), k)

\* C12 witness: a run that terminated was reseeded (state.termination is left
\* from it while state.terminated is false again) and the new run has
\* returned frames
C12_Witness ==
    /\ state.termination # None
    /\ ~state.terminated
    /\ Len(frames) >= 2
    /\ ~frames[1].terminated

----------------------------------------------------------------------------
(* Functions called on their own: `call` holds the arguments and the result *)

\* nothing but `call` is in use
OnlyCalls ==
    /\ state = None
    /\ seed = None
    /\ frames = <<>>
    /\ DetIdle
    /\ WorkerIdle
    /\ cancelled = FALSE
    /\ inbox = <<>>
    /\ search = None
    /\ gaPosted = <<>>
    /\ cancelSent = FALSE
    /\ gaSent = 0

OnlyCallsNext == UNCHANGED <<state, engineVars, detVars, workerVars, gaVars>>

countNeighbors(lattice, cells, width, height, x, y, toroidal) ==
    IF lattice = "square"
    THEN countNeighborsSquare(cells, width, height, x, y, toroidal)
    ELSE countNeighborsHex(cells, width, height, x, y, toroidal)

\* countNeighbors is called on grids of at most MaxSide x MaxSide cells
MaxSide == 3

Cells(width, height) == (0..(width - 1)) \X (0..(height - 1))

\* the buffer in which q is the only live cell
OnlyLive(width, height, q) ==
    [i \in 0..(width * height - 1) |-> IF i = q[2] * width + q[1] THEN 1 ELSE 0]

InitCount == OnlyCalls /\ call = None

\* countNeighbors(cells, width, height, x, y, toroidal) with q the only live
\* cell: how many times q is counted as a neighbour of p = (x, y)
CountNeighbors(lattice, width, height, toroidal, p, q) ==
    /\ call' = [ lattice |-> lattice, width |-> width, height |-> height,
                 toroidal |-> toroidal, p |-> p, q |-> q,
                 total |-> countNeighbors(lattice, OnlyLive(width, height, q),
                                          width, height, p[1], p[2], toroidal) ]
    /\ OnlyCallsNext

NextCount ==
    \E lattice \in {"square", "hex"}, width \in 1..MaxSide, height \in 1..MaxSide,
       toroidal \in BOOLEAN :
        \E p \in Cells(width, height), q \in Cells(width, height) :
            CountNeighbors(lattice, width, height, toroidal, p, q)

SpecCount == InitCount /\ [][NextCount]_vars

\* C13: on both lattices and under both boundary policies, q is counted as a
\* neighbour of p exactly as many times as p is counted as a neighbour of q.
C13_NeighbourRelationSymmetric ==
    call # None =>
        call.total = countNeighbors(call.lattice,
                                    OnlyLive(call.width, call.height, call.p),
                                    call.width, call.height,
                                    call.q[1], call.q[2], call.toroidal)

----------------------------------------------------------------------------
(* One step of a pattern and of its translations on a torus (SpecShift) *)

\* B3/S23 and B2/S34 are the default rules of the two lattices
ShiftConfigs ==
    { Config("square", wh, r, TRUE, 1) :
        wh \in { <<1, 1>>, <<3, 3>> }, r \in { Rule({3}, {2, 3}), Rule({1}, {1}) } }
    \cup
    { Config("hex", wh, r, TRUE, 1) :
        wh \in { <<3, 2>>, <<2, 4>> }, r \in { Rule({2}, {3, 4}), Rule({1}, {1}) } }

\* cells moved by (dx, dy) modulo width and height
Translated(cells, width, height, dx, dy) ==
    [i \in DOMAIN cells |->
        cells[(((i \div width) - dy + height) % height) * width
              + (((i % width) - dx + width) % width)]]

\* the cells of the frame stepSimulation returns for a state created with cells
Successor(config, cells) == stepSimulation(createSimulationState(config, cells)).frame.cells

InitShift ==
    /\ \E config \in ShiftConfigs : \E init \in RandomBuffers(CellCount(config)) :
           /\ seed = init
           /\ state = createSimulationState(config, init)
    /\ frames = <<>>
    /\ DetIdle
    /\ WorkerIdle
    /\ GAIdle

\* the pattern of `state` is moved by (dx, dy) and stepped in a state of its own
StepTranslated(dx, dy) ==
    /\ call' = [ dx |-> dx, dy |-> dy,
                 cells |-> Successor(state.config,
                                     Translated(state.cells, state.config.width,
                                                state.config.height, dx, dy)) ]
    /\ UNCHANGED <<state, engineVars, detVars, workerVars, gaVars>>

NextShift ==
    \E dx \in 0..(state.config.width - 1), dy \in 0..(state.config.height - 1) :
        StepTranslated(dx, dy)

SpecShift == InitShift /\ [][NextShift]_vars

\* the successor of the translated pattern is the translated successor
TranslationCommutes ==
    call.cells = Translated(Successor(state.config, state.cells),
                            state.config.width, state.config.height, call.dx, call.dy)

\* C14 (as stated): with toroidal = true, on the square and on the hex
\* lattice, for every pattern and every translation (dx, dy), stepping the
\* translated pattern yields the translated successor of the pattern.
C14_TorusTranslationInvariant ==
    call # None => TranslationCommutes

\* C14 (amended): with toroidal = true, stepping the translated pattern
\* yields the translated successor for every translation on the square
\* lattice, and on the hex lattice for the translations that keep the parity
\* of every row: dy even on a grid of even height.
C14_TranslationInvariantKeepingRowParity ==
    (/\ call # None
     /\ \/ state.config.lattice = "square"
        \/ state.config.height % 2 = 0 /\ call.dy % 2 = 0)
        => TranslationCommutes

\* C14 witness: a hex pattern moved two rows down on a grid of height 4, and
\* a square pattern moved across both edges, each with a successor that is
\* neither empty nor the pattern itself
C14_Witness ==
    /\ call # None
    /\ \/ state.config.lattice = "hex" /\ state.config.height = 4 /\ call.dy = 2
       \/ state.config.lattice = "square" /\ state.config.height = 3
            /\ call.dy = 2 /\ call.dx = 2
    /\ \E i \in DOMAIN call.cells : call.cells[i] = 1
    /\ call.cells # Translated(state.cells, state.config.width, state.config.height,
                               call.dx, call.dy)
    /\ call.cells # Successor(state.config, state.cells)

----------------------------------------------------------------------------
(* parseRule and safeParseRule called on rule strings (SpecRule) *)

\* a group of digits of an input is at most MaxDigits long
MaxDigits == 2

RECURSIVE DigitGroups(_)
DigitGroups(n) ==
    IF n = 0 THEN { <<>> }
    ELSE DigitGroups(n - 1)
         \cup { Append(g, d) : g \in DigitGroups(n - 1), d \in {"3", "2"} }

\* inputs put together from a part before, the birth letter, its digits, the
\* separator, the survival letter, its digits and a part after; wellFormed
\* says whether the parts make B<digits>/S<digits> up to case and surrounding
\* white space
RuleInputs ==
    { [ input |-> before \o b \o birthDigits \o slash \o sv \o survivalDigits \o after,
        birthDigits |-> birthDigits,
        survivalDigits |-> survivalDigits,
        wellFormed |-> /\ b \in { <<"B">>, <<"b">> }
                       /\ slash = <<"/">>
                       /\ sv \in { <<"S">>, <<"s">> }
                       /\ after # <<"x">> ] :
        before \in { <<>>, <<" ">> },
        b \in { <<"B">>, <<"b">>, <<"S">>, <<>> },
        birthDigits \in DigitGroups(MaxDigits),
        slash \in { <<"/">>, <<>>, <<"/", "/">> },
        sv \in { <<"S">>, <<"s">>, <<"B">> },
        survivalDigits \in DigitGroups(MaxDigits),
        after \in { <<>>, <<"\n">>, <<"x">> } }
    \cup
    { [ input |-> i, birthDigits |-> <<>>, survivalDigits |-> <<>>, wellFormed |-> FALSE] :
        i \in { <<>>, <<"i", "n", "v", "a", "l", "i", "d">>, <<"B", " ", "/", "S">> } }

InitRule ==
    /\ OnlyCalls
    /\ \E given \in RuleInputs :
           call = [given |-> given, op |-> "none", fallback |-> None, result |-> None]

\* parseRule(input): result is None when it throws
ParseRule ==
    /\ call' = [call EXCEPT !.op = "parseRule", !.fallback = None,
                            !.result = parseRule(call.given.input)]
    /\ OnlyCallsNext

\* safeParseRule(input, fallback)
SafeParseRule(fallback) ==
    /\ call' = [call EXCEPT !.op = "safeParseRule", !.fallback = Some(fallback),
                            !.result = safeParseRuleWith(call.given.input, fallback)]
    /\ OnlyCallsNext

\* the fallbacks callers pass: the two defaults, and a string that is no rule
Fallbacks == {DEFAULT_SQUARE_RULE, DEFAULT_HEX_RULE, <<"l", "i", "f", "e">>}

NextRule ==
    \/ ParseRule
    \/ \E fallback \in Fallbacks : SafeParseRule(fallback)

SpecRule == InitRule /\ [][NextRule]_vars

WellFormedInputs == {given \in RuleInputs : given.wellFormed}

DigitSet(digits) == {Digit[digits[i]] : i \in 1..Len(digits)}

\* the digits of a set of numbers, ascending and without repeats
AscendingDigits(numbers) ==
    SelectSeq(<<"0", "1", "2", "3", "4", "5", "6", "7", "8", "9">>,
              LAMBDA c : Digit[c] \in numbers)

CanonicalCode(birth, survival) ==
    <<"B">> \o AscendingDigits(birth) \o <<"/", "S">> \o AscendingDigits(survival)

\* C18: for every input that is B<digits>/S<digits> up to letter case and
\* surrounding white space, parseRule returns birth and survival as the sets
\* of the digits given and a code with the digits ascending and without
\* repeats; parsing the stringified result returns the same rule with the same
\* code; and every other such input with the same two sets of digits, whatever
\* its case, white space, digit order or repeats, parses to the same rule.
C18_ParseRuleCanonical ==
    (call.op = "parseRule" /\ call.given.wellFormed) =>
        /\ call.result # None
        /\ call.result[1].birth = DigitSet(call.given.birthDigits)
        /\ call.result[1].survival = DigitSet(call.given.survivalDigits)
        /\ call.result[1].code = CanonicalCode(DigitSet(call.given.birthDigits),
                                              DigitSet(call.given.survivalDigits))
        /\ parseRule(stringifyRule(call.result[1])) = call.result
        /\ \A other \in WellFormedInputs :
               ( /\ DigitSet(other.birthDigits) = DigitSet(call.given.birthDigits)
                 /\ DigitSet(other.survivalDigits) = DigitSet(call.given.survivalDigits) )
               => parseRule(other.input) = call.result

\* parseRule has returned for a lower-case input with white space around it,
\* the birth digits descending and a survival digit repeated
C18_Witness ==
    /\ call.op = "parseRule"
    /\ call.given.input = <<" ", "b", "3", "2", "/", "s", "3", "3", "\n">>
    /\ call.result # None
    /\ call.result[1].code = <<"B", "2", "3", "/", "S", "3">>

\* C19: parseRule throws on every input that is not B<digits>/S<digits> after
\* trimming and upper-casing and returns a rule for every input that is, B/S
\* with its two empty sets included; safeParseRule with a fallback that is a
\* rule never throws and returns the parse of the input when the input is a
\* rule, otherwise the parse of the fallback.
C19_InvalidRuleAndFallback ==
    /\ call.op = "parseRule" =>
          /\ (call.result = None) <=> ~call.given.wellFormed
          /\ call.given.input = <<"B", "/", "S">> =>
                /\ call.result # None
                /\ call.result[1].birth = {}
                /\ call.result[1].survival = {}
    /\ (call.op = "safeParseRule" /\ parseRule(call.fallback[1]) # None) =>
          /\ call.result # None
          /\ call.result = IF call.given.wellFormed
                            THEN parseRule(call.given.input)
                            ELSE parseRule(call.fallback[1])

\* safeParseRule has returned the hex default for an input that is no rule
C19_Witness ==
    /\ call.op = "safeParseRule"
    /\ call.given.input = <<"i", "n", "v", "a", "l", "i", "d">>
    /\ call.fallback = Some(DEFAULT_HEX_RULE)
    /\ call.result # None
    /\ call.result[1].code = DEFAULT_HEX_RULE
    /\ call.result[1].birth = {2}
    /\ call.result[1].survival = {3, 4}

----------------------------------------------------------------------------
(* HashTracker.add called on a tracker of its own (SpecTracker) *)

\* a tracker receives at most MaxAdds adds
MaxAdds == 6

\* hashes of boards: the empty board, single cells, two cells; the third
\* draw has bit 31 set
HashPool ==
    { {}, ZobristDraws[1], ZobristDraws[2], ZobristDraws[3],
      Xor(ZobristDraws[1], ZobristDraws[2]) }

InitTracker ==
    /\ OnlyCalls
    /\ \E limit \in 1..MaxMaxPeriod :
           call = [tracker |-> NewHashTracker(limit), before |-> NewHashTracker(limit),
                   hash |-> None, generation |-> 0]

\* tracker.add(hash, generation) at the generation after the last one
Add(hash) ==
    /\ call.generation < MaxAdds
    /\ call' = [tracker |-> HashTracker_add(call.tracker, hash, call.generation + 1),
                before |-> call.tracker,
                hash |-> Some(hash),
                generation |-> call.generation + 1]
    /\ OnlyCallsNext

NextTracker == \E hash \in HashPool : Add(hash)

SpecTracker == InitTracker /\ [][NextTracker]_vars

\* the keys the last add found in the map after its set()
KeysAfterSet == (DOMAIN call.before.seen) \cup {call.hash[1]}

\* the keys the last add removed
Evicted == KeysAfterSet \ DOMAIN call.tracker.seen

\* C20: after every add the tracker holds at most 2 x maxPeriod entries; an add
\* that does not overflow removes nothing; an add that overflows removes as
\* many entries as the map exceeds the bound by, and every removed key is
\* numerically smaller than every key kept; the entries kept keep their
\* generations, the added hash that of the add.
C20_TrackerSelfBounds ==
    /\ Cardinality(DOMAIN call.tracker.seen) <= 2 * call.tracker.limit
    /\ call.hash # None =>
          /\ DOMAIN call.tracker.seen \subseteq KeysAfterSet
          /\ Cardinality(Evicted)
                = Max2(0, Cardinality(KeysAfterSet) - 2 * call.tracker.limit)
          /\ \A gone \in Evicted : \A kept \in DOMAIN call.tracker.seen :
                 LessU32(gone, kept)
          /\ \A kept \in DOMAIN call.tracker.seen :
                 call.tracker.seen[kept] = IF kept = call.hash[1] THEN call.generation
                                           ELSE call.before.seen[kept]

\* an add has overflowed a full tracker and removed a key added after another
\* key that is kept
C20_Witness ==
    /\ call.hash # None
    /\ Cardinality(DOMAIN call.before.seen) = 2 * call.tracker.limit
    /\ Cardinality(DOMAIN call.tracker.seen) = 2 * call.tracker.limit
    /\ \E gone \in Evicted \ {call.hash[1]} :
           \E kept \in (DOMAIN call.tracker.seen) \ {call.hash[1]} :
               call.before.seen[kept] < call.before.seen[gone]

----------------------------------------------------------------------------
(* countNeighbors called on whole buffers (SpecNeighbors) *)

NeighborGridSizes == { <<1, 1>>, <<2, 3>>, <<3, 2>>, <<3, 3>> }

\* the buffer of the hex scenario and of the hex test: 4x4, bounded, live
\* cells (1,1) and (2,2), counted at (2,2)
HexParityInput ==
    [ lattice |-> "hex", width |-> 4, height |-> 4, toroidal |-> FALSE,
      cells |-> Pattern(4, 4, { <<1, 1>>, <<2, 2>> }), x |-> 2, y |-> 2 ]

NeighborInputs ==
    { [ lattice |-> lattice, width |-> wh[1], height |-> wh[2], toroidal |-> toroidal,
        cells |-> cells, x |-> xy[1], y |-> xy[2] ] :
        lattice \in {"square", "hex"}, toroidal \in BOOLEAN,
        wh \in NeighborGridSizes,
        cells \in [0..8 -> {0, 1}], xy \in (0..2) \X (0..2) }

\* the buffer has width * height cells and (x, y) is a cell of the grid
FitsGrid(given) ==
    /\ given.x < given.width
    /\ given.y < given.height
    /\ \A i \in DOMAIN given.cells : i >= given.width * given.height => given.cells[i] = 0

Sized(given) ==
    [given EXCEPT !.cells = [i \in 0..(given.width * given.height - 1) |-> given.cells[i]]]

InitNeighbors ==
    /\ OnlyCalls
    /\ \E given \in {Sized(g) : g \in {n \in NeighborInputs : FitsGrid(n)}}
                      \cup {HexParityInput} :
           call = [given |-> given, op |-> "none", result |-> None]

\* countNeighborsSquare or countNeighborsHex, as nextPopulation picks them
Count ==
    /\ call.op = "none"
    /\ call' = [call EXCEPT
                  !.op = "count",
                  !.result = Some(countNeighbors(call.given.lattice, call.given.cells,
                                                 call.given.width, call.given.height,
                                                 call.given.x, call.given.y,
                                                 call.given.toroidal))]
    /\ OnlyCallsNext

NextNeighbors == Count

SpecNeighbors == InitNeighbors /\ [][NextNeighbors]_vars

\* the neighbour offsets as the specification lists them
ListedOffsets(lattice, y) ==
    IF lattice = "square"
    THEN ((-1..1) \X (-1..1)) \ { <<0, 0>> }
    ELSE IF y % 2 = 0
    THEN { <<0, -1>>, <<1, -1>>, <<-1, 0>>, <<1, 0>>, <<0, 1>>, <<1, 1>> }
    ELSE { <<-1, -1>>, <<0, -1>>, <<-1, 0>>, <<1, 0>>, <<-1, 1>>, <<0, 1>> }

\* the offsets of (x, y) that land on a live cell: outside the grid an offset
\* is skipped when the grid is bounded and reduced modulo width and height
\* when it is toroidal
LiveOffsets(given) ==
    { off \in ListedOffsets(given.lattice, given.y) :
        LET nx == given.x + off[1]
            ny == given.y + off[2]
        IN  IF given.toroidal
            THEN given.cells[((ny + given.height) % given.height) * given.width
                             + ((nx + given.width) % given.width)] # 0
            ELSE /\ nx \in 0..(given.width - 1)
                 /\ ny \in 0..(given.height - 1)
                 /\ given.cells[ny * given.width + nx] # 0 }

\* countNeighbors returns the number of the listed offsets of (x, y) that
\* land on a live cell
CountsListedOffsets ==
    call.op = "count" => call.result = Some(Cardinality(LiveOffsets(call.given)))

\* C23: countNeighbors returns the number of live cells among the lattice's
\* neighbour offsets of (x, y), the 8 square offsets or the 6 hex offsets of
\* the parity of y, skipping offsets outside a bounded grid and reducing them
\* modulo width and height on a torus; in the hex scenario (4x4, bounded, live
\* cells (1,1) and (2,2)) the count at (2,2) is 1.
C23_CountNeighbors ==
    /\ CountsListedOffsets
    /\ (call.op = "count" /\ call.given = HexParityInput) => call.result = Some(1)

\* what holds of the code: the count over the listed offsets, which is 0 in
\* the hex scenario
C23_CountOverListedOffsets ==
    /\ CountsListedOffsets
    /\ (call.op = "count" /\ call.given = HexParityInput) => call.result = Some(0)

----------------------------------------------------------------------------
(* The rule applied by one step (Spec) *)

\* the buffer a frame was computed from: the initial buffer for the first
\* frame, the cells of the frame before for the others
PreStep(k) == IF k = 1 THEN seed ELSE frames[k - 1].cells

\* the B/S rule applied to every cell of the buffer `current`
RuleApplied(config, current) ==
    [i \in DOMAIN current |->
        IF \/ /\ current[i] = 1
              /\ countNeighbors(config.lattice, current, config.width, config.height,
                                i % config.width, i \div config.width, config.toroidal)
                     \in config.rule.survival
           \/ /\ current[i] # 1
              /\ countNeighbors(config.lattice, current, config.width, config.height,
                                i % config.width, i \div config.width, config.toroidal)
                     \in config.rule.birth
        THEN 1 ELSE 0]

\* C24: the cells of the frame a step returns (in each state, the frame
\* returned last) has 1 at i iff the cell i of the pre-step buffer
\* is live with its neighbour count in survival or dead with its neighbour
\* count in birth, all counts taken in the pre-step buffer; after the step
\* state.cells is that buffer and state.scratch the pre-step buffer, not
\* written to; the bounded 5x5 B3/S23 blinker (1,2),(2,2),(3,2) gives
\* (2,1),(2,2),(2,3) after one step and the seed again after two.
C24_StepAppliesRuleToPreStepBuffer ==
    /\ Len(frames) >= 1 =>
           /\ frames[Len(frames)].cells = RuleApplied(state.config, PreStep(Len(frames)))
           /\ state.cells = frames[Len(frames)].cells
           /\ state.scratch = PreStep(Len(frames))
    /\ (seed = BlinkerSeed /\ state.config = BlinkerConfig(state.config.maxPeriod)) =>
           /\ Len(frames) >= 1 =>
                  frames[1].cells = Pattern(5, 5, { <<2, 1>>, <<2, 2>>, <<2, 3>> })
           /\ Len(frames) >= 2 => frames[2].cells = BlinkerSeed

\* the blinker has been stepped twice and is back at its seed
C24_Witness ==
    /\ seed = BlinkerSeed
    /\ state.config = BlinkerConfig(state.config.maxPeriod)
    /\ Len(frames) = 2
    /\ frames[1].cells = Pattern(5, 5, { <<2, 1>>, <<2, 2>>, <<2, 3>> })
    /\ frames[1].cells # seed
    /\ frames[2].cells = seed

----------------------------------------------------------------------------
(* The engine's arrays as objects (SpecAlias): `call.heap` maps each       *)
(* Uint8Array ever allocated to its content, state.cells and state.scratch *)
(* are references into it, and so is the cells of every frame returned     *)

\* stepSimulation is called at most MaxFrames times
MaxFrames == 2

\* toggleCell(state, x, y)
toggleCell(st, x, y) ==
    [st EXCEPT !.cells[y * st.config.width + x] =
                   IF st.cells[y * st.config.width + x] # 0 THEN 0 ELSE 1]

\* the state with the content of its two arrays in place of the references
Deref(c) ==
    [c.s EXCEPT !.cells = c.heap[c.s.cells], !.scratch = c.heap[c.s.scratch]]

\* st.cells is written to the array cellsRef and st.scratch to the array
\* scratchRef, which state.cells and state.scratch then refer to
Store(c, st, cellsRef, scratchRef) ==
    [c EXCEPT !.heap = [c.heap EXCEPT ![cellsRef] = st.cells, ![scratchRef] = st.scratch],
              !.s = [st EXCEPT !.cells = cellsRef, !.scratch = scratchRef]]

\* a frame that holds state.cells itself
SliceShared(heap, ref) == [heap |-> heap, ref |-> ref]

\* array.slice(): a new array with the content of the array ref
Slice(heap, ref) ==
    [ heap |-> [r \in (DOMAIN heap) \cup {Cardinality(DOMAIN heap)} |->
                   IF r \in DOMAIN heap THEN heap[r] ELSE heap[ref]],
      ref  |-> Cardinality(DOMAIN heap) ]

AliasConfigs ==
    { Config("square", <<2, 1>>, r, FALSE, 1) : r \in { Rule({1}, {1}), Rule({0}, {}) } }

\* createSimulationState allocates cells (array 0) and scratch (array 1)
InitAlias ==
    /\ OnlyCalls
    /\ \E config \in AliasConfigs : \E init \in RandomBuffers(CellCount(config)) :
           call = [ heap   |-> [r \in {0, 1} |->
                                  IF r = 0 THEN init ELSE ZeroBuffer(CellCount(config))],
                    s      |-> [createSimulationState(config, init) EXCEPT
                                  !.cells = 0, !.scratch = 1],
                    frames |-> <<>>,
                    op     |-> "create" ]

\* the frame returned: its cells is the reference sliced.ref, and `cells` is
\* the content the caller received in it and has written to it since
Returned(c, stored, sliced, frame) ==
    [ heap   |-> sliced.heap,
      s      |-> stored.s,
      frames |-> Append(c.frames, [ref |-> sliced.ref, cells |-> frame.cells,
                                   generation |-> frame.generation]),
      op     |-> "step" ]

\* nextPopulation writes target = state.scratch, leaves source = state.cells
\* as it is and exchanges the two references; stepSimulation slices the new
\* state.cells
Stepped(c, r) ==
    Returned(c, Store(c, r.state, c.s.scratch, c.s.cells),
             Slice(Store(c, r.state, c.s.scratch, c.s.cells).heap, c.s.scratch),
             r.frame)

StepAlias ==
    /\ Len(call.frames) < MaxFrames
    /\ call' = Stepped(call, stepSimulation(Deref(call)))
    /\ OnlyCallsNext

ToggleAlias(x, y) ==
    /\ call' = [Store(call, toggleCell(Deref(call), x, y), call.s.cells, call.s.scratch)
                  EXCEPT !.op = "toggle"]
    /\ OnlyCallsNext

RandomizeAlias(cells) ==
    /\ call' = [Store(call, randomize(Deref(call), cells), call.s.cells, call.s.scratch)
                  EXCEPT !.op = "randomize"]
    /\ OnlyCallsNext

ApplySeedAlias(source) ==
    /\ call' = [Store(call, applySeed(Deref(call), source), call.s.cells, call.s.scratch)
                  EXCEPT !.op = "applySeed"]
    /\ OnlyCallsNext

\* the caller writes the byte v at index i of the cells of the k-th frame
WriteFrame(k, i, v) ==
    /\ k \in 1..Len(call.frames)
    /\ call' = [call EXCEPT !.heap[call.frames[k].ref][i] = v,
                            !.frames[k].cells[i] = v,
                            !.op = "write"]
    /\ OnlyCallsNext

NextAlias ==
    \/ StepAlias
    \/ \E x \in 0..(call.s.config.width - 1) : \E y \in 0..(call.s.config.height - 1) :
           ToggleAlias(x, y)
    \/ \E cells \in RandomBuffers(CellCount(call.s.config)) : RandomizeAlias(cells)
    \/ \E source \in SeedBuffers(CellCount(call.s.config)) : ApplySeedAlias(source)
    \/ \E k \in 1..MaxFrames : \E i \in 0..(CellCount(call.s.config) - 1) :
           \E v \in {0, 1} : WriteFrame(k, i, v)

SpecAlias == InitAlias /\ [][NextAlias]_vars

FrameRefs == {call.frames[k].ref : k \in 1..Len(call.frames)}

\* C21: the cells of every frame returned is an array of its own, neither of
\* the engine's two arrays nor the cells of another frame, and holds what the
\* caller received and wrote, whatever steps, toggles, randomize and applySeed
\* came later; a write to a frame's cells changes nothing of the engine state;
\* state.cells and state.scratch are always the two arrays allocated at
\* creation, distinct, and each step exchanges them.
C21_FramesAreCopiesAndBuffersSwap ==
    /\ [](/\ {call.s.cells, call.s.scratch} = {0, 1}
          /\ call.s.cells # call.s.scratch
          /\ FrameRefs \cap {0, 1} = {}
          /\ Cardinality(FrameRefs) = Len(call.frames)
          /\ \A k \in 1..Len(call.frames) :
                 call.heap[call.frames[k].ref] = call.frames[k].cells)
    /\ [][/\ call'.op = "write" => Deref(call') = Deref(call)
          /\ call'.op = "step" => /\ call'.s.cells = call.s.scratch
                                  /\ call'.s.scratch = call.s.cells]_vars

\* two frames were returned, the engine was then toggled and reseeded and the
\* first frame written to: its cells differ from what both engine arrays hold
C21_Witness ==
    /\ Len(call.frames) >= 2
    /\ call.op = "write"
    /\ call.s.generation = 0
    /\ call.heap[call.frames[1].ref] # call.heap[call.s.cells]
    /\ call.heap[call.frames[1].ref] # call.heap[call.s.scratch]
    /\ call.heap[call.frames[1].ref] # call.heap[call.frames[2].ref]

----------------------------------------------------------------------------
(* src/lib/ga/engine.ts *)

\* A genome is its cells, a sequence of <<x, y>>; the id (a nanoid) is not
\* modelled.  A value of Math.random() is counted in thousandths, 0..999,
\* and so is config.mutationRate, 0..1000; the draws a call makes are read
\* from a sequence `draws`, cyclically, from position k on.
Draw(draws, k) == draws[(k % Len(draws)) + 1]

\* Math.floor(Math.random() * n)
FloorOf(draw, n) == (draw * n) \div 1000

\* line 19
TargetCount(window) == Max2(8, (window * window) \div 10)

----------------------------------------------------------------------------
(* randomGenome called on its own (SpecGenome): `call` holds the window,   *)
(* the cells pushed so far, the keys in `used` and whether it has returned *)

GenomeWindows == {1, 2, 3}

\* values of Math.random(), in thousandths, that give every outcome of
\* Math.floor(Math.random() * window) for the windows above
RandomValues == {0, 400, 999}

InitGenome ==
    /\ OnlyCalls
    /\ \E window \in GenomeWindows :
           call = [window |-> window, cells |-> <<>>, used |-> {}, pc |-> "loop"]

\* one pass of the while loop, lines 21-28, for the two values drawn: a key
\* that is in `used` leaves everything as it is
DrawCell(dx, dy) ==
    /\ call.pc = "loop"
    /\ Len(call.cells) < TargetCount(call.window)
    /\ call' = IF <<FloorOf(dx, call.window), FloorOf(dy, call.window)>> \in call.used
               THEN call
               ELSE [call EXCEPT
                       !.used = @ \cup {<<FloorOf(dx, call.window), FloorOf(dy, call.window)>>},
                       !.cells = Append(@, <<FloorOf(dx, call.window),
                                             FloorOf(dy, call.window)>>)]
    /\ OnlyCallsNext

\* the loop condition fails and randomGenome returns, line 29
ReturnGenome ==
    /\ call.pc = "loop"
    /\ Len(call.cells) >= TargetCount(call.window)
    /\ call' = [call EXCEPT !.pc = "returned"]
    /\ OnlyCallsNext

NextGenome ==
    \/ \E dx \in RandomValues : \E dy \in RandomValues : DrawCell(dx, dy)
    \/ ReturnGenome

SpecGenome == InitGenome /\ [][NextGenome]_vars

\* fair draws: the loop does not draw keys that are in `used` for ever while
\* there is a key that is not
SpecGenomeFair == SpecGenome /\ WF_vars(NextGenome)

\* C25: randomGenome(seedWindow) returns for every seedWindow >= 1 under fair
\* draws, and what it returns is exactly max(8, floor(seedWindow^2 * 0.1))
\* cells, pairwise distinct, each in [0, seedWindow) x [0, seedWindow).
C25_RandomGenomeTerminates ==
    /\ <>(call.pc = "returned")
    /\ [](call.pc = "returned" =>
            /\ Len(call.cells) = Max2(8, (call.window * call.window) \div 10)
            /\ \A i \in 1..Len(call.cells) : \A j \in 1..Len(call.cells) :
                   i # j => call.cells[i] # call.cells[j]
            /\ \A i \in 1..Len(call.cells) :
                   /\ call.cells[i][1] \in 0..(call.window - 1)
                   /\ call.cells[i][2] \in 0..(call.window - 1))

\* the clamp without its upper end
ClampBelow(v, window) == Max2(0, v)

Clamp(v, window) == Max2(0, Min2(window - 1, v))

\* Math.random() < 0.5 ? -1 : 1
Nudge(draw) == IF draw < 500 THEN -1 ELSE 1

\* lines 34-41 from index i on: the cells and the position of the next draw
RECURSIVE MutateCells(_, _, _, _, _, _)
MutateCells(cells, i, window, rate, draws, k) ==
    IF i > Len(cells) THEN [cells |-> cells, k |-> k]
    ELSE IF Draw(draws, k) < rate
    THEN MutateCells([cells EXCEPT ![i] =
                        << Clamp(cells[i][1] + Nudge(Draw(draws, k + 1)), window),
                           Clamp(cells[i][2] + Nudge(Draw(draws, k + 2)), window) >>],
                     i + 1, window, rate, draws, k + 3)
    ELSE MutateCells(cells, i + 1, window, rate, draws, k + 1)

\* lines 42-44
MutatePush(m, window, rate, draws) ==
    IF Draw(draws, m.k) < rate
    THEN [ cells |-> Append(m.cells, << FloorOf(Draw(draws, m.k + 1), window),
                                        FloorOf(Draw(draws, m.k + 2), window) >>),
           k |-> m.k + 3 ]
    ELSE [cells |-> m.cells, k |-> m.k + 1]

\* next.splice(at, 1), at counted from 0
SpliceOne(cells, at) ==
    SubSeq(cells, 1, at) \o SubSeq(cells, at + 2, Len(cells))

\* lines 45-47
MutateSplice(m, rate, draws) ==
    IF Draw(draws, m.k) < rate /\ Len(m.cells) > 1
    THEN [ cells |-> SpliceOne(m.cells, FloorOf(Draw(draws, m.k + 1), Len(m.cells))),
           k |-> m.k + 2 ]
    ELSE [cells |-> m.cells, k |-> m.k + 1]

\* mutateGenome: the genome's cells and the position of the next draw
mutateGenome(genome, window, rate, draws, k) ==
    MutateSplice(MutatePush(MutateCells(genome.cells, 1, window, rate, draws, k),
                            window, rate, draws),
                 rate, draws)

\* line 55, i counted from 0: None is undefined
Gene(a, b, i) ==
    IF i % 2 = 0
    THEN IF a.cells = <<>> THEN None ELSE Some(a.cells[(i % Len(a.cells)) + 1])
    ELSE IF b.cells = <<>> THEN None ELSE Some(b.cells[(i % Len(b.cells)) + 1])

\* lines 54-59 for i < n
RECURSIVE CrossoverUpTo(_, _, _)
CrossoverUpTo(a, b, n) ==
    IF n = 0 THEN <<>>
    ELSE CrossoverUpTo(a, b, n - 1) \o Gene(a, b, n - 1)

crossover(a, b) ==
    [cells |-> CrossoverUpTo(a, b, Max2(Len(a.cells), Len(b.cells)))]

\* embedGenome: the content of buffer afterwards
embedGenome(genome, grid, window, buffer) ==
    LET offset == (grid - window) \div 2
        inside == { c \in {genome.cells[i] : i \in 1..Len(genome.cells)} :
                      /\ offset + c[1] >= 0 /\ offset + c[1] < grid
                      /\ offset + c[2] >= 0 /\ offset + c[2] < grid }
        marked == { (offset + c[2]) * grid + (offset + c[1]) : c \in inside }
    IN  [idx \in DOMAIN buffer |-> IF idx \in marked THEN 1 ELSE 0]

touchesBorder(frame, size) ==
    \E i \in DOMAIN frame.cells :
        /\ frame.cells[i] # 0
        /\ \/ i % size = 0
           \/ i \div size = 0
           \/ i % size = size - 1
           \/ i \div size = size - 1

\* fitness is counted in twentieths: line 122 divides borderAt by 20
FitnessUnit == 20

\* lines 90-98
SimConfig(config) ==
    [ lattice |-> config.lattice, width |-> config.gridSize, height |-> config.gridSize,
      rule |-> safeParseRule(config.rule), toroidal |-> config.toroidal, maxPeriod |-> 50 ]

\* lines 114-116 without the !borderAt test: every frame that touches the
\* border sets borderAt again
BorderAtOverwritten(config, frame, borderAt) ==
    IF ~config.toroidal /\ touchesBorder(frame, config.gridSize)
    THEN Some(frame.generation)
    ELSE borderAt

\* lines 114-116
BorderAt(config, frame, borderAt) ==
    IF ~config.toroidal /\ borderAt = None /\ touchesBorder(frame, config.gridSize)
    THEN Some(frame.generation)
    ELSE borderAt

\* lines 111-120 from pass i on
RECURSIVE EvaluateLoop(_, _, _, _, _)
RECURSIVE EvaluateFrame(_, _, _, _)
EvaluateLoop(config, s, i, best, borderAt) ==
    IF i >= config.maxGenerations THEN [best |-> best, borderAt |-> borderAt]
    ELSE EvaluateFrame(config, stepSimulation(s), i, borderAt)

EvaluateFrame(config, r, i, borderAt) ==
    IF r.frame.terminated
    THEN [best |-> r.frame.generation, borderAt |-> BorderAt(config, r.frame, borderAt)]
    ELSE EvaluateLoop(config, r.state, i + 1, r.frame.generation,
                      BorderAt(config, r.frame, borderAt))

\* lines 121-125
Fitness(config, e) ==
    IF ~config.toroidal /\ e.borderAt # None
    THEN Max2(0, Max2(0, FitnessUnit * e.best
                           - Max2(0, FitnessUnit * config.borderPenalty - e.borderAt[1])))
    ELSE Max2(0, FitnessUnit * e.best)

evaluateGenome(genome, config, seedWindow) ==
    Fitness(config,
            EvaluateLoop(config,
                         createSimulationState(
                             SimConfig(config),
                             embedGenome(genome, config.gridSize, seedWindow,
                                         ZeroBuffer(config.gridSize * config.gridSize))),
                         0, 0, None))

\* lines 142-145
Scored(population, config, seedWindow) ==
    [i \in 1..Len(population) |->
        [genome |-> population[i],
         fitness |-> evaluateGenome(population[i], config, seedWindow)]]

\* line 146: Array.prototype.sort is stable; the order is fitness descending
RECURSIVE InsertScored(_, _)
InsertScored(sorted, e) ==
    IF sorted = <<>> THEN <<e>>
    ELSE IF Head(sorted).fitness >= e.fitness
    THEN <<Head(sorted)>> \o InsertScored(Tail(sorted), e)
    ELSE <<e>> \o sorted

RECURSIVE SortScored(_)
SortScored(scored) ==
    IF scored = <<>> THEN <<>>
    ELSE InsertScored(SortScored(SubSeq(scored, 1, Len(scored) - 1)), scored[Len(scored)])

\* line 159 taking the end of the sorted array: the genomes that score least
ElitesFromWorst(scored, eliteCount) ==
    [i \in 1..Min2(eliteCount, Len(scored)) |->
        scored[Len(scored) - Min2(eliteCount, Len(scored)) + i].genome]

\* line 159, for 0 <= eliteCount
Elites(scored, eliteCount) ==
    [i \in 1..Min2(eliteCount, Len(scored)) |-> scored[i].genome]

\* elites[Math.floor(Math.random() * elites.length)] ?? randomGenome(seedWindow),
\* fresh being what randomGenome returns
Parent(elites, draw, fresh) ==
    IF elites = <<>> THEN fresh ELSE elites[FloorOf(draw, Len(elites)) + 1]

\* lines 161-169: fresh[1] and fresh[2] are what randomGenome returns for
\* parentA and for parentB
RECURSIVE Breed(_, _, _, _, _, _, _)
RECURSIVE Bred(_, _, _, _, _, _, _)
Breed(next, elites, config, seedWindow, draws, k, fresh) ==
    IF Len(next) >= config.populationSize THEN next
    ELSE Bred(next, elites, config, seedWindow, draws, fresh,
              mutateGenome(crossover(Parent(elites, Draw(draws, k), fresh[1]),
                                     Parent(elites, Draw(draws, k + 1), fresh[2])),
                           seedWindow, config.mutationRate, draws, k + 2))

Bred(next, elites, config, seedWindow, draws, fresh, m) ==
    Breed(Append(next, [cells |-> m.cells]), elites, config, seedWindow, draws, m.k, fresh)

\* lines 147-150 without the comparison: the top of this generation is taken
ImprovedTakesTop(q, scored) ==
    [q EXCEPT !.bestFitness = scored[1].fitness, !.bestGenome = scored[1].genome]

\* lines 147-150
Improved(q, scored) ==
    IF scored[1].fitness > q.bestFitness
    THEN [q EXCEPT !.bestFitness = scored[1].fitness, !.bestGenome = scored[1].genome]
    ELSE q

\* lines 152-170 with the top of this generation reported as the best
ProgressedReportsTop(q, scored, draws, fresh) ==
    [ search   |-> [q EXCEPT !.population =
                                Breed(Elites(scored, q.config.eliteCount),
                                      Elites(scored, q.config.eliteCount),
                                      q.config, q.seedWindow, draws, 0, fresh),
                             !.generation = @ + 1],
      progress |-> [ generation |-> q.generation,
                     bestFitness |-> scored[1].fitness,
                     population |-> q.config.populationSize,
                     bestGenome |-> scored[1].genome ] ]

\* lines 152-170, for the locals q after lines 147-150
Progressed(q, scored, draws, fresh) ==
    [ search   |-> [q EXCEPT !.population =
                                Breed(Elites(scored, q.config.eliteCount),
                                      Elites(scored, q.config.eliteCount),
                                      q.config, q.seedWindow, draws, 0, fresh),
                             !.generation = @ + 1],
      progress |-> [ generation |-> q.generation,
                     bestFitness |-> q.bestFitness,
                     population |-> q.config.populationSize,
                     bestGenome |-> q.bestGenome ] ]

\* lines 142-146
Ranked(q) == SortScored(Scored(q.population, q.config, q.seedWindow))

\* lines 147-170: the rest of a pass of the for loop, scored being Ranked(q)
Generation(q, scored, draws, fresh) ==
    Progressed(Improved(q, scored), scored, draws, fresh)

----------------------------------------------------------------------------
(* evaluateGenome called on its own (SpecFitness) *)

\* config.maxGenerations is at most MaxGenerations
MaxGenerations == 3

FitnessConfigs ==
    { [ populationSize |-> 1, mutationRate |-> 0, eliteCount |-> 0,
        maxGenerations |-> maxGenerations, gridSize |-> 4, lattice |-> "square",
        rule |-> rule, toroidal |-> toroidal, borderPenalty |-> borderPenalty ] :
        maxGenerations \in {0, MaxGenerations},
        rule \in { DEFAULT_SQUARE_RULE, <<"B", "1", "/", "S", "1">> },
        toroidal \in BOOLEAN,
        borderPenalty \in {0, 1, 2} }

\* the genome whose cells are the cells of `chosen`, in row order
GenomeOf(window, chosen) ==
    [ cells |-> SelectSeq([i \in 1..(window * window) |->
                              <<(i - 1) % window, (i - 1) \div window>>],
                          LAMBDA c : c \in chosen) ]

\* a seed window of 2 lies inside the 4x4 grid, one of 3 along two of its edges
FitnessInputs ==
    { [config |-> config, seedWindow |-> window, genome |-> GenomeOf(window, chosen)] :
        config \in FitnessConfigs,
        window \in {3},
        chosen \in SUBSET ((0..2) \X (0..2)) }
    \cup
    { [config |-> config, seedWindow |-> window, genome |-> GenomeOf(window, chosen)] :
        config \in FitnessConfigs,
        window \in {2},
        chosen \in SUBSET ((0..1) \X (0..1)) }

InitFitness ==
    /\ OnlyCalls
    /\ \E given \in FitnessInputs :
           call = [given |-> given, op |-> "none", ran |-> None, fitness |-> None]

\* the simulation state evaluateGenome steps, lines 100-107
Embedded0(given) ==
    createSimulationState(
        SimConfig(given.config),
        embedGenome(given.genome, given.config.gridSize, given.seedWindow,
                    ZeroBuffer(given.config.gridSize * given.config.gridSize)))

\* evaluateGenome(genome, config, seedWindow): `ran` is best and borderAt
\* when the loop is left, `fitness` the value returned, in twentieths
Evaluate ==
    /\ call.op = "none"
    /\ \E e \in {EvaluateLoop(call.given.config, Embedded0(call.given), 0, 0, None)} :
           call' = [call EXCEPT !.op = "evaluateGenome",
                                !.ran = Some(e),
                                !.fitness = Some(Fitness(call.given.config, e))]
    /\ OnlyCallsNext

NextFitness == Evaluate

SpecFitness == InitFitness /\ [][NextFitness]_vars

\* the frames of n steps from s, stepping on whatever the frames say
RECURSIVE FramesOf(_, _)
FramesOf(s, n) ==
    IF n = 0 THEN <<>>
    ELSE LET r == stepSimulation(s)
         IN  <<r.frame>> \o FramesOf(r.state, n - 1)

Least(generations) == CHOOSE g \in generations : \A h \in generations : g <= h

\* a live cell on an edge row or column of the size x size grid
OnEdge(frame, size) ==
    \E x \in 0..(size - 1) : \E y \in 0..(size - 1) :
        /\ frame.cells[y * size + x] # 0
        /\ x \in {0, size - 1} \/ y \in {0, size - 1}

\* the number of frames stepped, given the frames of maxGenerations steps:
\* up to the first terminated one
SteppedFrames(all) ==
    IF \E k \in 1..Len(all) : all[k].terminated
    THEN Least({k \in 1..Len(all) : all[k].terminated})
    ELSE Len(all)

\* the generations of the frames stepped that have a live cell on an edge
EdgeGenerations(all, size) ==
    {all[k].generation : k \in {j \in 1..SteppedFrames(all) : OnEdge(all[j], size)}}

\* best, borderAt and the fitness in twentieths as the claim gives them
ClaimedFitness(config, all) ==
    LET best == IF SteppedFrames(all) = 0 THEN 0 ELSE all[SteppedFrames(all)].generation
        edges == EdgeGenerations(all, config.gridSize)
        borderAt == IF config.toroidal \/ edges = {} THEN None ELSE Some(Least(edges))
    IN  [ best     |-> best,
          borderAt |-> borderAt,
          fitness  |-> IF ~config.toroidal /\ borderAt # None
                       THEN Max2(0, 20 * best
                                      - Max2(0, 20 * config.borderPenalty - borderAt[1]))
                       ELSE 20 * best ]

FitnessRan ==
    [ best     |-> call.ran[1].best,
      borderAt |-> call.ran[1].borderAt,
      fitness  |-> call.fitness[1] ]

\* C26: best is the generation of the last frame stepped, at most
\* maxGenerations frames being stepped and none after the first terminated
\* one; borderAt is the generation of the first frame stepped with a live cell
\* on an edge, and is set only when toroidal is false; the fitness is
\* max(0, best - max(0, borderPenalty - borderAt/20)) when toroidal is false
\* and borderAt is set, best otherwise, and lies in [0, maxGenerations]
\* (fitness counted in twentieths).
C26_Fitness ==
    call.op = "evaluateGenome" =>
        /\ FitnessRan = ClaimedFitness(call.given.config,
                                       FramesOf(Embedded0(call.given),
                                                call.given.config.maxGenerations))
        /\ call.ran[1].best <= call.given.config.maxGenerations
        /\ call.fitness[1] >= 0
        /\ call.fitness[1] <= 20 * call.given.config.maxGenerations

\* a bounded run touched the border at its first generation, ran on for all
\* its generations and was penalised by less than its length
C26_Witness ==
    /\ call.op = "evaluateGenome"
    /\ ~call.given.config.toroidal
    /\ call.given.config.borderPenalty = 2
    /\ call.ran[1].borderAt = Some(1)
    /\ call.ran[1].best = 3
    /\ call.fitness[1] = 21

----------------------------------------------------------------------------
(* workers/ga.worker.ts (SpecGA): the main thread sends messages while the *)
(* worker, a thread of its own, handles them one at a time                 *)

GAConfig(populationSize, mutationRate, eliteCount, toroidal, rule) ==
    [ populationSize |-> populationSize, mutationRate |-> mutationRate,
      eliteCount |-> eliteCount, maxGenerations |-> 3, gridSize |-> 4,
      lattice |-> "square", rule |-> rule, toroidal |-> toroidal, borderPenalty |-> 1 ]

GAConfigs ==
    { GAConfig(2, 500, 1, FALSE, DEFAULT_SQUARE_RULE),
      GAConfig(2, 0, 2, TRUE, <<"b", "3", "6", "/", "s", "2", "3">>),
      GAConfig(1, 1000, 0, FALSE, <<"l", "i", "f", "e">>) }

GAOptions == { [iterations |-> n, seedWindow |-> 3] : n \in {0, MaxIterations} }

\* the cells of the window in row order, without the cell `hole`
AllBut(window, hole) ==
    [ cells |-> SelectSeq([i \in 1..(window * window) |->
                              <<(i - 1) % window, (i - 1) \div window>>],
                          LAMBDA c : c # hole) ]

\* genomes randomGenome(window) can return: TargetCount(window) distinct cells
GenomePool(window) ==
    { g \in {AllBut(window, <<1, 1>>), AllBut(window, <<0, 0>>), AllBut(window, <<2, 2>>)} :
        Len(g.cells) = TargetCount(window) }

\* what the calls of randomGenome in line 163 and in line 165 return in one
\* pass of the search loop; they are made only when there are no elites
FreshGenomes(window, scored, eliteCount) ==
    IF Elites(scored, eliteCount) = <<>>
    THEN GenomePool(window) \X GenomePool(window)
    ELSE { <<None, None>> }

\* the values Math.random() returns to one pass of the search loop
DrawStreams == { <<0>>, <<999>>, <<0, 999>>, <<600, 400, 999>> }

InitGA ==
    /\ GAIdle
    /\ state = None
    /\ seed = None
    /\ frames = <<>>
    /\ DetIdle
    /\ timer = None
    /\ intervals = {}
    /\ posted = <<>>
    /\ prevGeneration = None
    /\ handled = "none"
    /\ ingested = None

\* the final GA generation of the run under way has not been evaluated yet
Searching == IF search = None THEN FALSE ELSE search.generation < search.iterations

\* worker.postMessage({ type: "run", config, options }) on the main thread
SendRun(config, options) ==
    /\ gaSent < MaxGAMessages
    /\ inbox' = Append(inbox, [type |-> "run", config |-> config, options |-> options])
    /\ gaSent' = gaSent + 1
    /\ UNCHANGED <<cancelled, search, gaPosted, cancelSent>>
    /\ UNCHANGED <<state, engineVars, detVars, workerVars, call>>

\* worker.postMessage({ type: "cancel" }) on the main thread
SendCancel ==
    /\ gaSent < MaxGAMessages
    /\ inbox' = Append(inbox, [type |-> "cancel"])
    /\ gaSent' = gaSent + 1
    /\ cancelSent' = (cancelSent \/ Searching)
    /\ UNCHANGED <<cancelled, search, gaPosted>>
    /\ UNCHANGED <<state, engineVars, detVars, workerVars, call>>

\* the worker is between handlers and message is next in its queue
Receives(type) ==
    /\ search = None
    /\ inbox # <<>>
    /\ Head(inbox).type = type

\* case "run", lines 16-17, into runGeneticSearch, lines 129-138: population
\* is what the populationSize calls of randomGenome return
ReceiveRun(population) ==
    /\ Receives("run")
    /\ Len(population) = Head(inbox).config.populationSize
    /\ cancelled' = FALSE
    /\ search' = [ config      |-> Head(inbox).config,
                   iterations  |-> Head(inbox).options.iterations,
                   seedWindow  |-> Head(inbox).options.seedWindow,
                   population  |-> population,
                   bestGenome  |-> population[1],
                   bestFitness |-> 0,
                   generation  |-> 0,
                   stopped     |-> FALSE ]
    /\ inbox' = Tail(inbox)
    /\ gaPosted' = <<>>
    /\ cancelSent' = FALSE
    /\ UNCHANGED gaSent
    /\ UNCHANGED <<state, engineVars, detVars, workerVars, call>>

\* one pass of the for loop, lines 140-171, inside the run handler
SearchGeneration ==
    /\ Searching
    /\ ~search.stopped
    /\ IF cancelled
       THEN /\ search' = [search EXCEPT !.stopped = TRUE]
            /\ gaPosted' = gaPosted
       ELSE \E scored \in {Ranked(search)} :
            \E draws \in DrawStreams :
            \E fresh \in FreshGenomes(search.seedWindow, scored, search.config.eliteCount) :
            \E r \in {Generation(search, scored, draws, fresh)} :
                /\ search' = r.search
                /\ gaPosted' = Append(gaPosted, [type |-> "progress", data |-> r.progress])
    /\ UNCHANGED <<cancelled, inbox, cancelSent, gaSent>>
    /\ UNCHANGED <<state, engineVars, detVars, workerVars, call>>

\* the loop is left, runGeneticSearch returns (line 173) and the run handler
\* ends, lines 23-26
ReturnRun ==
    /\ search # None
    /\ ~Searching \/ search.stopped
    /\ gaPosted' = IF ~cancelled
                   THEN Append(gaPosted, [ type |-> "result",
                                           genome |-> search.bestGenome,
                                           fitness |-> search.bestFitness ])
                   ELSE gaPosted
    /\ search' = None
    /\ UNCHANGED <<cancelled, inbox, cancelSent, gaSent>>
    /\ UNCHANGED <<state, engineVars, detVars, workerVars, call>>

\* case "cancel", lines 27-29
ReceiveCancel ==
    /\ Receives("cancel")
    /\ cancelled' = TRUE
    /\ inbox' = Tail(inbox)
    /\ UNCHANGED <<search, gaPosted, cancelSent, gaSent>>
    /\ UNCHANGED <<state, engineVars, detVars, workerVars, call>>

NextGA ==
    \/ \E config \in GAConfigs : \E options \in GAOptions : SendRun(config, options)
    \/ SendCancel
    \/ \E a \in GenomePool(3) : \E b \in GenomePool(3) :
           \E population \in {<<a>>, <<a, b>>} : ReceiveRun(population)
    \/ SearchGeneration
    \/ ReturnRun
    \/ ReceiveCancel

SpecGA == InitGA /\ [][NextGA]_vars

\* C2: when a cancel message is sent while a run is under way and its final
\* GA generation has not been evaluated yet, the worker posts no result
\* message for that run.
C2_CancelledRunPostsNoResult ==
    cancelSent => \A i \in 1..Len(gaPosted) : gaPosted[i].type # "result"

\* the progress events among the messages posted by the run handler
ProgressEvents == SelectSeq(gaPosted, LAMBDA msg : msg.type = "progress")

ResultMessages == SelectSeq(gaPosted, LAMBDA msg : msg.type = "result")

\* C15: bestFitness never decreases from one progress event of a run to the
\* next, and the fitness of the result is at least the bestFitness of the
\* progress event of GA generation 0.
C15_BestFitnessMonotone ==
    /\ \A i \in 1..(Len(ProgressEvents) - 1) :
           ProgressEvents[i].data.bestFitness <= ProgressEvents[i + 1].data.bestFitness
    /\ \A i \in 1..Len(ResultMessages) :
           ProgressEvents # <<>> =>
               ResultMessages[i].fitness >= ProgressEvents[1].data.bestFitness

\* C15 witness: a run has posted its result after two progress events, the
\* second with a higher bestFitness than the first
C15_Witness ==
    /\ Len(ProgressEvents) = 2
    /\ Len(ResultMessages) = 1
    /\ ProgressEvents[1].data.bestFitness < ProgressEvents[2].data.bestFitness

\* the highest fitness among the first n genomes of the population the search
\* is about to evaluate (fitness is never negative)
RECURSIVE TopFitness(_)
TopFitness(n) ==
    IF n = 0 THEN 0
    ELSE Max2(TopFitness(n - 1),
              evaluateGenome(search.population[n], search.config, search.seedWindow))

\* a pass of the search loop has run
GenerationRan == search # None /\ search' # None /\ search' # search

\* what the pass posted: one progress event, numbered by the passes before
\* it, carrying the highest fitness evaluated so far and a genome that has it
ProgressOfGeneration ==
    /\ Len(gaPosted') = Len(gaPosted) + 1
    /\ SubSeq(gaPosted', 1, Len(gaPosted)) = gaPosted
    /\ gaPosted'[Len(gaPosted')].type = "progress"
    /\ gaPosted'[Len(gaPosted')].data.generation = search.generation
    /\ search.generation = Len(ProgressEvents)
    /\ search.generation < search.iterations
    /\ gaPosted'[Len(gaPosted')].data.bestFitness =
           Max2(search.bestFitness, TopFitness(Len(search.population)))
    /\ evaluateGenome(gaPosted'[Len(gaPosted')].data.bestGenome,
                      search.config, search.seedWindow)
           = gaPosted'[Len(gaPosted')].data.bestFitness

\* C16: the progress events of a run carry the GA generations 0, 1, ..., k-1
\* in this order, k <= iterations, one per pass of the search loop, all
\* before the result message, and each carries the highest fitness evaluated
\* so far in the run with a genome that has this fitness.
C16_ProgressPerGeneration ==
    /\ [](/\ \A i \in 1..Len(ProgressEvents) : ProgressEvents[i].data.generation = i - 1
          /\ \A i \in 1..Len(gaPosted) : gaPosted[i].type = "result" => i = Len(gaPosted)
          /\ search # None => Len(ProgressEvents) <= search.iterations)
    /\ [][GenerationRan => ProgressOfGeneration]_vars

\* C16 witness: a run has posted two progress events and its result, and the
\* second event still carries the best genome of the first generation
C16_Witness ==
    /\ Len(ProgressEvents) = 2
    /\ Len(gaPosted) = 3
    /\ gaPosted[3].type = "result"
    /\ ProgressEvents[2].data.bestGenome = ProgressEvents[1].data.bestGenome
    /\ gaPosted[3].genome = ProgressEvents[1].data.bestGenome
    /\ gaPosted[3].fitness > 0

\* the genomes the worker holds or has posted
GenomesInUse ==
    (IF search = None THEN {}
     ELSE {search.population[i] : i \in 1..Len(search.population)} \cup {search.bestGenome})
    \cup {ProgressEvents[i].data.bestGenome : i \in 1..Len(ProgressEvents)}
    \cup {ResultMessages[i].genome : i \in 1..Len(ResultMessages)}

CellSet(genome) == {genome.cells[i] : i \in 1..Len(genome.cells)}

\* the cells embedGenome sets in a grid x grid buffer
Embedded(genome, grid, window) ==
    {i \in 0..(grid * grid - 1) :
        embedGenome(genome, grid, window, ZeroBuffer(grid * grid))[i] = 1}

\* C17: every genome of the population, of a progress event and of the
\* result is non-empty with all coordinates in [0, seedWindow), and
\* embedding it in a grid with gridSize >= seedWindow drops none of its cells.
C17_GenomesStayInWindow ==
    \A genome \in GenomesInUse : \A options \in GAOptions :
        /\ genome.cells # <<>>
        /\ \A c \in CellSet(genome) :
               /\ 0 <= c[1] /\ c[1] < options.seedWindow
               /\ 0 <= c[2] /\ c[2] < options.seedWindow
        /\ \A grid \in options.seedWindow..(options.seedWindow + 1) :
               Cardinality(Embedded(genome, grid, options.seedWindow))
                   = Cardinality(CellSet(genome))

\* C17 witness: the population holds a genome that mutation has made longer
\* than randomGenome makes them and one in which clamping at the edge of the
\* window has made two cells equal
C17_Witness ==
    /\ search # None
    /\ search.generation >= 1
    /\ \E i \in 1..Len(search.population) :
           Len(search.population[i].cells) > TargetCount(search.seedWindow)
    /\ \E genome \in GenomesInUse :
           Cardinality(CellSet(genome)) < Len(genome.cells)

\* the fitness of each genome of a population, in the population's order
FitnessesOf(q, population) ==
    [i \in 1..Len(population) |-> evaluateGenome(population[i], q.config, q.seedWindow)]

RECURSIVE MaxOf(_)
MaxOf(fitnesses) ==
    IF fitnesses = <<>> THEN 0
    ELSE Max2(MaxOf(SubSeq(fitnesses, 1, Len(fitnesses) - 1)), fitnesses[Len(fitnesses)])

\* the run is one the claim is about
EliteRun(q) ==
    /\ q.iterations >= 1
    /\ q.config.eliteCount >= 1
    /\ q.config.eliteCount <= q.config.populationSize

\* next[i] is a genome of the population with fitnesses `now`, and fewer
\* than i genomes of it score more
AmongTop(q, now, next, i) ==
    \E j \in 1..Len(q.population) :
        /\ q.population[j] = next[i]
        /\ Cardinality({k \in 1..Len(now) : now[k] > now[j]}) < i

\* what a pass of the search loop leaves, given the fitnesses of the
\* population it evaluated and of the population it built
SearchPass(now, after) ==
    /\ Len(search.population) = search.config.populationSize
    /\ Len(search'.population) = search.config.populationSize
    /\ search'.bestFitness = Max2(search.bestFitness, MaxOf(now))
    /\ \/ /\ search'.bestGenome = search.bestGenome
          /\ search'.bestFitness = search.bestFitness
       \/ \E j \in 1..Len(now) :
              /\ search'.bestGenome = search.population[j]
              /\ search'.bestFitness = now[j]
    /\ \A i \in 1..search.config.eliteCount :
           AmongTop(search, now, search'.population, i)
    /\ MaxOf(after) >= MaxOf(now)

\* the run handler posts what the search returns, and a search of one
\* iteration or more returns after a GA generation
ResultIsBest ==
    (search # None /\ search' = None /\ ~cancelled) =>
        /\ gaPosted'[Len(gaPosted')].type = "result"
        /\ gaPosted'[Len(gaPosted')].fitness = search.bestFitness
        /\ gaPosted'[Len(gaPosted')].genome = search.bestGenome
        /\ search.iterations >= 1 => search.generation >= 1

\* C30: in a run with iterations >= 1 and 1 <= eliteCount <= populationSize,
\* bestFitness starts at 0 and after every GA generation is the maximum of
\* what it was and of the fitness of every genome evaluated in it, bestGenome
\* is a genome evaluated with that fitness, and these are what the run
\* returns, after one GA generation at least; the population holds populationSize genomes at the start of every
\* GA generation; the top eliteCount genomes of a generation are the first
\* members of the next population, unchanged, and the top fitness of the next
\* population is not below that of this one.
C30_ResultIsBestEvaluated ==
    /\ [](search # None =>
            /\ Len(search.population) = search.config.populationSize
            /\ search.generation = 0 => search.bestFitness = 0
            /\ (EliteRun(search) /\ search.generation >= 1) =>
                   evaluateGenome(search.bestGenome, search.config, search.seedWindow)
                       = search.bestFitness)
    /\ [][/\ (GenerationRan /\ EliteRun(search)) =>
                 SearchPass(FitnessesOf(search, search.population),
                            FitnessesOf(search, search'.population))
          /\ ResultIsBest]_vars

\* two GA generations have run with one elite: the best genome was found in
\* the second and leads the population built from it
C30_Witness ==
    /\ search # None
    /\ search.generation = 2
    /\ search.config.eliteCount = 1
    /\ search.config.populationSize = 2
    /\ Len(ProgressEvents) = 2
    /\ search.bestFitness > ProgressEvents[1].data.bestFitness
    /\ search.population[1] = search.bestGenome

----------------------------------------------------------------------------
(* crossover and mutateGenome on cells that are objects (SpecCross):       *)
(* `call.heap` maps each [x, y] array to its content, the cells of the two *)
(* parents and of the child are sequences of references into it            *)

\* a child has at most MaxChild cells
MaxChild == 3

CrossWindow == 2

\* the parents: their cells are the arrays 0 .. |a| + |b| - 1
ParentCells ==
    { << <<0, 0>> >>,
      << <<1, 0>>, <<0, 1>> >>,
      << <<1, 1>>, <<0, 0>>, <<1, 0>> >> }

InitCross ==
    /\ OnlyCalls
    /\ \E a \in ParentCells : \E b \in ParentCells :
           call = [ given |-> [a |-> a, b |-> b],
                    heap  |-> [r \in 0..(Len(a) + Len(b) - 1) |->
                                 IF r < Len(a) THEN a[r + 1] ELSE b[r - Len(a) + 1]],
                    a     |-> [i \in 1..Len(a) |-> i - 1],
                    b     |-> [i \in 1..Len(b) |-> Len(a) + i - 1],
                    child |-> None,
                    op    |-> "none" ]

\* the arrays of the two parents
ParentRefs(c) == 0..(Len(c.a) + Len(c.b) - 1)

\* the content of the cells refs
Values(c, refs) == [i \in 1..Len(refs) |-> c.heap[refs[i]]]

\* new arrays holding `values` become the child's cells; the arrays no
\* genome refers to any more are dropped
Allocated(c, values) ==
    [c EXCEPT
       !.heap = [r \in ParentRefs(c) \cup { Cardinality(ParentRefs(c)) + i - 1 :
                                                i \in 1..Len(values) } |->
                    IF r \in ParentRefs(c) THEN c.heap[r]
                    ELSE values[r - Cardinality(ParentRefs(c)) + 1]],
       !.child = Some([i \in 1..Len(values) |-> Cardinality(ParentRefs(c)) + i - 1])]

\* child.push(gene): the child refers to the parents' own arrays
PushedAsIs(c, genes) ==
    [c EXCEPT !.heap = [r \in ParentRefs(c) |-> c.heap[r]], !.child = Some(genes)]

\* child.push([...gene]) for the genes picked, line 57
PushedCopies(c, genes) == Allocated(c, Values(c, genes))

\* crossover(a, b)
Crossover ==
    /\ call.op = "none"
    /\ call' = [PushedCopies(call, crossover([cells |-> call.a], [cells |-> call.b]).cells)
                  EXCEPT !.op = "crossover"]
    /\ OnlyCallsNext

\* child = mutateGenome(child, seedWindow, rate): genome.cells.map(([x, y]) =>
\* [x, y]) and every cell assigned or pushed afterwards are new arrays
Mutate(rate, draws) ==
    /\ call.child # None
    /\ \E m \in {mutateGenome([cells |-> Values(call, call.child[1])],
                               CrossWindow, rate, draws, 0)} :
           /\ Len(m.cells) <= MaxChild
           /\ call' = [Allocated(call, m.cells) EXCEPT !.op = "mutate"]
    /\ OnlyCallsNext

\* a later change of the child in place: child.cells[i][at] = v
WriteGene(i, at, v) ==
    /\ call.child # None
    /\ i \in 1..Len(call.child[1])
    /\ call' = [call EXCEPT !.heap[call.child[1][i]][at] = v, !.op = "write"]
    /\ OnlyCallsNext

NextCross ==
    \/ Crossover
    \/ \E rate \in {0, 500, 1000} : \E draws \in DrawStreams : Mutate(rate, draws)
    \/ \E i \in 1..MaxChild : \E at \in {1, 2} : \E v \in 0..(CrossWindow - 1) :
           WriteGene(i, at, v)

SpecCross == InitCross /\ [][NextCross]_vars

\* C27: for non-empty parents A and B the child of crossover has exactly
\* max(|A|, |B|) cells, the i-th (from 0) equal to A.cells[i mod |A|] for even
\* i and to B.cells[i mod |B|] for odd i; the child's cells are arrays of
\* their own, none of them a cell of a parent, and whatever is done to the
\* child afterwards (mutateGenome, a write into one of its cells) the cells
\* of both parents stay what they were.
C27_CrossoverAlternatesAndCopies ==
    /\ Values(call, call.a) = call.given.a
    /\ Values(call, call.b) = call.given.b
    /\ call.child # None =>
          {call.child[1][i] : i \in 1..Len(call.child[1])} \cap ParentRefs(call) = {}
    /\ call.op = "crossover" =>
          /\ Len(call.child[1]) = Max2(Len(call.given.a), Len(call.given.b))
          /\ \A i \in 0..(Len(call.child[1]) - 1) :
                 call.heap[call.child[1][i + 1]] =
                     IF i % 2 = 0
                     THEN call.given.a[(i % Len(call.given.a)) + 1]
                     ELSE call.given.b[(i % Len(call.given.b)) + 1]

\* the child of parents of different lengths has been changed in all its
\* cells and differs from both parents
C27_Witness ==
    /\ call.op = "write"
    /\ Len(call.given.a) = 1
    /\ Len(call.given.b) = 3
    /\ Len(call.child[1]) = 3
    /\ \A i \in 1..3 : call.heap[call.child[1][i]] = <<0, 1>>

====
